---- MODULE Spec2Model ----
(***************************************************************************)
(* Subagent coordinator of pi-mono: guardrail budget, child process driver *)
(* and execution orchestrator (examples/extensions/subagent).              *)
(*                                                                         *)
(* Text is modelled as a sequence of one-character strings, so that the    *)
(* normalisation done by makeFingerprint and the String()/parseInt round   *)
(* trip through the child environment are computed, not assumed.           *)
(***************************************************************************)
EXTENDS Integers, Sequences, FiniteSets, TLC

(***************************************************************************)
(* Program constants (guardrails.ts and the extension entry point).        *)
(***************************************************************************)
DEFAULT_MAX_DEPTH == 2
DEFAULT_MAX_TOTAL_AGENTS == 16
DEFAULT_MAX_WALL_TIME_MS == 600000
MAX_PARALLEL_TASKS == 8
MAX_CONCURRENCY == 4

(***************************************************************************)
(* Bounds of the model.                                                    *)
(***************************************************************************)
\* processes of one run in the process-tree specification (root included)
MaxProcs == 3
\* orchestrator calls one nested process may make
MaxCalls == 2
\* largest descendant reservation asked of reserveChildBudget in ReserveSpec
MaxReserved == 2

\* one tick of the clock: the whole wall-time budget, so that the clock reads
\* "before", "exactly at" and "after" the deadline of a run started at 0
TickMs == DEFAULT_MAX_WALL_TIME_MS

(***************************************************************************)
(* Text helpers: JavaScript trim(), toLowerCase(), replace(/\s+/g, " "),   *)
(* String(n) and Number.parseInt(s, 10).                                   *)
(***************************************************************************)
Max(a, b) == IF a >= b THEN a ELSE b
Min(a, b) == IF a <= b THEN a ELSE b

IsWs(c) == c \in {" ", "\t"}

ToLowerChar(c) ==
    CASE c = "A" -> "a"
      [] c = "B" -> "b"
      [] c = "C" -> "c"
      [] c = "S" -> "s"
      [] c = "L" -> "l"
      [] c = "F" -> "f"
      [] c = "I" -> "i"
      [] c = "X" -> "x"
      [] OTHER -> c

ToLower(s) == [i \in 1..Len(s) |-> ToLowerChar(s[i])]

RECURSIVE TrimStart(_)
TrimStart(s) ==
    IF s = <<>> THEN <<>>
    ELSE IF IsWs(Head(s)) THEN TrimStart(Tail(s)) ELSE s

RECURSIVE TrimEnd(_)
TrimEnd(s) ==
    IF s = <<>> THEN <<>>
    ELSE IF IsWs(s[Len(s)]) THEN TrimEnd(SubSeq(s, 1, Len(s) - 1)) ELSE s

Trim(s) == TrimEnd(TrimStart(s))

\* s.replace(/\s+/g, " "): every maximal run of whitespace becomes one space
RECURSIVE CollapseWs(_)
CollapseWs(s) ==
    IF s = <<>> THEN <<>>
    ELSE IF IsWs(Head(s))
         THEN <<" ">> \o CollapseWs(TrimStart(s))
         ELSE <<Head(s)>> \o CollapseWs(Tail(s))

Digits == <<"0", "1", "2", "3", "4", "5", "6", "7", "8", "9">>
IsDigit(c) == \E d \in 1..10 : Digits[d] = c
DigitVal(c) == (CHOOSE d \in 1..10 : Digits[d] = c) - 1

\* String(n) for an integer n
RECURSIVE NatToStr(_)
NatToStr(n) ==
    IF n < 10 THEN <<Digits[n + 1]>>
    ELSE NatToStr(n \div 10) \o <<Digits[(n % 10) + 1]>>

IntToStr(n) == IF n < 0 THEN <<"-">> \o NatToStr(0 - n) ELSE NatToStr(n)

RECURSIVE DigitPrefixVal(_, _)
DigitPrefixVal(s, acc) ==
    IF s = <<>> \/ ~IsDigit(Head(s)) THEN acc
    ELSE DigitPrefixVal(Tail(s), acc * 10 + DigitVal(Head(s)))

\* Number.parseInt(s, 10): leading whitespace, optional sign, leading digits;
\* NaN (nan = TRUE) when no digit follows
ParseInt(s) ==
    LET t == TrimStart(s)
        neg == t # <<>> /\ Head(t) = "-"
        u == IF t # <<>> /\ Head(t) \in {"-", "+"} THEN Tail(t) ELSE t
    IN IF u = <<>> \/ ~IsDigit(Head(u))
       THEN [nan |-> TRUE, val |-> 0]
       ELSE [nan |-> FALSE,
             val |-> IF neg THEN 0 - DigitPrefixVal(u, 0) ELSE DigitPrefixVal(u, 0)]

(***************************************************************************)
(* guardrails.ts                                                           *)
(***************************************************************************)
\* an environment variable that is not set reads as the empty text: every
\* reader below treats undefined and "" alike (!value, ||, !== "0")
Unset == <<>>

parseIntegerEnv(value, fallback) ==
    IF value = <<>> THEN fallback
    ELSE IF ParseInt(value).nan THEN fallback ELSE ParseInt(value).val

\* the JSON array of strings is modelled as the sequence of its items
parseFingerprintSet(value) ==
    SelectSeq(value, LAMBDA item : Trim(item) # <<>>)

\* variant that keeps whitespace runs as written
normalizeTask_KeepRuns(task) == ToLower(Trim(task))
normalizeTask(task) == ToLower(Trim(CollapseWs(task)))

makeFingerprint(agent, task) ==
    ToLower(Trim(agent)) \o <<":", ":">> \o normalizeTask(task)

\* Set.has on the insertion-ordered fingerprint set
HasFingerprint(fps, fp) == \E i \in 1..Len(fps) : fps[i] = fp

\* Set.add on a sequence without duplicates
AddFingerprint(fps, fp) == IF HasFingerprint(fps, fp) THEN fps ELSE Append(fps, fp)

RECURSIVE DedupSeq(_)
DedupSeq(s) ==
    IF s = <<>> THEN <<>>
    ELSE LET r == DedupSeq(SubSeq(s, 1, Len(s) - 1))
         IN AddFingerprint(r, s[Len(s)])

\* randomBytes(8).toString("hex") of a root call
FreshRunId == <<"r">>

EmptyEnv ==
    [runId |-> Unset, depth |-> Unset, maxDepth |-> Unset, rootStartedAt |-> Unset,
     deadlineAt |-> Unset, remainingTokens |-> Unset, fingerprints |-> <<>>,
     canSpawnChildren |-> Unset]

initializeExecutionBudget(env, nowMs) ==
    LET runId == IF env.runId # <<>> THEN env.runId ELSE FreshRunId
        depth == Max(0, parseIntegerEnv(env.depth, 0))
        maxDepth == Max(0, parseIntegerEnv(env.maxDepth, DEFAULT_MAX_DEPTH))
        rootStartedAtMs == Max(0, parseIntegerEnv(env.rootStartedAt, nowMs))
        defaultDeadlineAtMs == rootStartedAtMs + DEFAULT_MAX_WALL_TIME_MS
        deadlineAtMs == Max(rootStartedAtMs, parseIntegerEnv(env.deadlineAt, defaultDeadlineAtMs))
        remainingTokens == Max(0, parseIntegerEnv(env.remainingTokens, DEFAULT_MAX_TOTAL_AGENTS))
    IN [runId |-> runId,
        depth |-> depth,
        maxDepth |-> maxDepth,
        rootStartedAtMs |-> rootStartedAtMs,
        deadlineAtMs |-> deadlineAtMs,
        remainingTokens |-> remainingTokens,
        fingerprints |-> DedupSeq(parseFingerprintSet(env.fingerprints)),
        canSpawnChildren |-> (env.canSpawnChildren # <<"0">>)]

\* an agent configuration: its name and its declared tool list (NoTools when
\* the agent file declares none)
NoTools == <<"-">>
\* variant that lets every agent with a declared tool list nest
canNestAgent_AnyToolList(agent) == agent.tools # NoTools
canNestAgent(agent) ==
    agent.tools # NoTools /\ \E i \in 1..Len(agent.tools) : agent.tools[i] = "subagent"

NoChild ==
    [runId |-> <<>>, nextDepth |-> 0, maxDepth |-> 0, rootStartedAtMs |-> 0,
     deadlineAtMs |-> 0, remainingTokens |-> 0, fingerprints |-> <<>>,
     canSpawnChildren |-> FALSE]

\* variant that charges the parent only for the child's descendants, not for
\* the child itself
reserveChildBudget_NoOwnToken(budget, agentName, task, reservedDescendantTokens, allowNestedFromAgent) ==
    LET fingerprint == makeFingerprint(agentName, task)
        reserveTotal == Max(0, reservedDescendantTokens)
    IN IF HasFingerprint(budget.fingerprints, fingerprint)
       THEN [error |-> "loop", budget |-> budget, child |-> NoChild]
       ELSE IF budget.remainingTokens < reserveTotal
       THEN [error |-> "budget", budget |-> budget, child |-> NoChild]
       ELSE LET after == [budget EXCEPT
                            !.remainingTokens = budget.remainingTokens - reserveTotal,
                            !.fingerprints = AddFingerprint(budget.fingerprints, fingerprint)]
            IN [error |-> "none",
                budget |-> after,
                child |-> [runId |-> budget.runId,
                           nextDepth |-> budget.depth + 1,
                           maxDepth |-> budget.maxDepth,
                           rootStartedAtMs |-> budget.rootStartedAtMs,
                           deadlineAtMs |-> budget.deadlineAtMs,
                           remainingTokens |-> Max(0, reservedDescendantTokens),
                           fingerprints |-> after.fingerprints,
                           canSpawnChildren |-> allowNestedFromAgent]]

\* the result of one call: error is "none", "loop" or "budget"; budget is the
\* parent's budget after the call, child the ChildProcessBudget returned
reserveChildBudget(budget, agentName, task, reservedDescendantTokens, allowNestedFromAgent) ==
    LET fingerprint == makeFingerprint(agentName, task)
        reserveTotal == 1 + Max(0, reservedDescendantTokens)
    IN IF HasFingerprint(budget.fingerprints, fingerprint)
       THEN [error |-> "loop", budget |-> budget, child |-> NoChild]
       ELSE IF budget.remainingTokens < reserveTotal
       THEN [error |-> "budget", budget |-> budget, child |-> NoChild]
       ELSE LET after == [budget EXCEPT
                            !.remainingTokens = budget.remainingTokens - reserveTotal,
                            !.fingerprints = AddFingerprint(budget.fingerprints, fingerprint)]
            IN [error |-> "none",
                budget |-> after,
                child |-> [runId |-> budget.runId,
                           nextDepth |-> budget.depth + 1,
                           maxDepth |-> budget.maxDepth,
                           rootStartedAtMs |-> budget.rootStartedAtMs,
                           deadlineAtMs |-> budget.deadlineAtMs,
                           remainingTokens |-> Max(0, reservedDescendantTokens),
                           fingerprints |-> after.fingerprints,
                           canSpawnChildren |-> allowNestedFromAgent]]

\* variant that leaves the nesting flag out of the child's environment
ChildEnv_NoSpawnFlag(childBudget) ==
    [runId |-> childBudget.runId,
     depth |-> IntToStr(childBudget.nextDepth),
     maxDepth |-> IntToStr(childBudget.maxDepth),
     rootStartedAt |-> IntToStr(childBudget.rootStartedAtMs),
     deadlineAt |-> IntToStr(childBudget.deadlineAtMs),
     remainingTokens |-> IntToStr(childBudget.remainingTokens),
     fingerprints |-> childBudget.fingerprints,
     canSpawnChildren |-> Unset]
\* runSingleAgent: the budget variables written into the child's environment
ChildEnv(childBudget) ==
    [runId |-> childBudget.runId,
     depth |-> IntToStr(childBudget.nextDepth),
     maxDepth |-> IntToStr(childBudget.maxDepth),
     rootStartedAt |-> IntToStr(childBudget.rootStartedAtMs),
     deadlineAt |-> IntToStr(childBudget.deadlineAtMs),
     remainingTokens |-> IntToStr(childBudget.remainingTokens),
     fingerprints |-> childBudget.fingerprints,
     canSpawnChildren |-> IF childBudget.canSpawnChildren THEN <<"1">> ELSE <<"0">>]

\* execute: the four entry checks on a freshly initialised budget, in the
\* order of the code; "ok" when the call may proceed
\* variant without the depth limit
BudgetGate_NoDepthLimit(budget, nowMs) ==
    IF budget.depth > 0 /\ ~budget.canSpawnChildren THEN "nested"
    ELSE IF nowMs > budget.deadlineAtMs THEN "deadline"
    ELSE IF budget.remainingTokens <= 0 THEN "exhausted"
    ELSE "ok"
BudgetGate(budget, nowMs) ==
    IF budget.depth > 0 /\ ~budget.canSpawnChildren THEN "nested"
    ELSE IF budget.depth >= budget.maxDepth THEN "depth"
    ELSE IF nowMs > budget.deadlineAtMs THEN "deadline"
    ELSE IF budget.remainingTokens <= 0 THEN "exhausted"
    ELSE "ok"

\* runSingleAgent: the child is spawned only when time is left
\* variant that launches whatever the clock says
MayLaunch_Always(childBudget, nowMs) == TRUE
MayLaunch(childBudget, nowMs) == childBudget.deadlineAtMs - nowMs > 0


(***************************************************************************)
(* Agents a call may name and the task texts it may delegate.              *)
(***************************************************************************)
AgentC == [name |-> <<"c">>, tools |-> <<"subagent", "read">>]
AgentUpperC == [name |-> <<" ", "C">>, tools |-> <<"read", "subagent">>]
AgentS == [name |-> <<"s">>, tools |-> NoTools]
AgentW == [name |-> <<"w">>, tools |-> <<"read", "bash">>]

TaskAB == <<"a", " ", "b">>
TaskABVariant == <<" ", "A", "\t", " ", "b", " ">>
TaskB == <<"b">>

(***************************************************************************)
(* ReserveSpec: reserveChildBudget called over and over on one budget      *)
(* object, with every combination of the arguments below.                  *)
(***************************************************************************)
ReserveAgents == {AgentC, AgentUpperC}
ReserveTasks == {TaskAB, TaskABVariant, TaskB}

VARIABLES
    rBudget,  \* the ExecutionBudget object the calls are made on
    rLast,    \* the last call: its arguments, the budget before it, its result
    rDone     \* the (agent, task) pairs reserved successfully before the last call

reserveVars == <<rBudget, rLast, rDone>>

NoBudget == initializeExecutionBudget(EmptyEnv, 0)

NoLast ==
    [agent |-> <<>>, task |-> <<>>, r |-> 0, allow |-> FALSE, before |-> NoBudget,
     res |-> [error |-> "never", budget |-> NoBudget, child |-> NoChild]]

\* the budget of a root call, and the budget of a nested process that was
\* handed MaxReserved tokens
ReserveInit ==
    /\ \/ rBudget = initializeExecutionBudget(EmptyEnv, 0)
       \/ rBudget = initializeExecutionBudget(
              [EmptyEnv EXCEPT !.remainingTokens = IntToStr(MaxReserved),
                               !.depth = IntToStr(1),
                               !.runId = FreshRunId], 0)
    /\ rLast = NoLast
    /\ rDone = {}

ReserveCall(agent, task, r, allow) ==
    LET res == reserveChildBudget(rBudget, agent.name, task, r, allow)
    IN /\ rLast' = [agent |-> agent.name, task |-> task, r |-> r, allow |-> allow,
                    before |-> rBudget, res |-> res]
       /\ rBudget' = res.budget
       /\ rDone' = IF rLast.res.error = "none"
                   THEN rDone \cup {<<rLast.agent, rLast.task>>}
                   ELSE rDone

ReserveNext ==
    \E agent \in ReserveAgents, task \in ReserveTasks, r \in 0..MaxReserved,
       allow \in BOOLEAN :
        ReserveCall(agent, task, r, allow)

ReserveIdle == rBudget = NoBudget /\ rLast = NoLast /\ rDone = {}

(***************************************************************************)
(* GuardSpec: the process tree of one run.  Every process holds the        *)
(* environment it was started with; an orchestrator call builds its budget *)
(* from that environment, reserves child budgets and launches children.    *)
(***************************************************************************)
GuardAgents == {AgentC, AgentS, AgentW}
GuardTasks == {TaskAB}

\* descendant reservations an orchestrator asks for: everything but the child
\* itself (single mode, last chain step), or everything but the child and one
\* more step (first step of a two-step chain)
ReservedChoices(budget) ==
    {r \in {budget.remainingTokens - 1, budget.remainingTokens - 2} : r >= 0}

VARIABLES
    gProcs,    \* the processes of one run: root first, then every spawned child
    gLog       \* every successful reservation of the run

guardVars == <<gProcs, gLog>>

\* the tree is explored within the wall-time budget: Date.now() reads the
\* start of the run throughout (the deadline is the subject of the
\* orchestrator specification below)
gNow == 0

\* a process: the environment it was started with (via names the reservation
\* it was launched for) and the budget object of its latest orchestrator call
NewProc(parent, env, via, nowMs) ==
    [parent |-> parent, env |-> env, via |-> via,
     calls |-> 0, gate |-> "none", active |-> FALSE,
     budget |-> initializeExecutionBudget(env, nowMs)]

NoReservation == [proc |-> 0, call |-> 0, fp |-> <<>>]

GuardInit ==
    /\ gProcs = <<NewProc(0, EmptyEnv, NoReservation, 0)>>
    /\ gLog = {}

\* runSingleAgent awaits the exit of the child: a child process lives while
\* the orchestrator call that launched it is in progress
Awaited(p) ==
    LET via == gProcs[p].via
    IN gProcs[via.proc].active /\ gProcs[via.proc].calls = via.call

\* the root makes the one top-level call of the run (a later root call draws a
\* new run id); a nested process may call the subagent tool again and again,
\* and every call rebuilds its budget from the unchanged process environment
MayCall(p) ==
    /\ ~gProcs[p].active
    /\ gProcs[p].calls < (IF p = 1 THEN 1 ELSE MaxCalls)
    /\ p # 1 => Awaited(p)

\* execute, up to the budget gate
ExecuteEntry(p) ==
    /\ MayCall(p)
    /\ LET budget == initializeExecutionBudget(gProcs[p].env, gNow)
           gate == BudgetGate(budget, gNow)
       IN gProcs' = [gProcs EXCEPT ![p] =
              [@ EXCEPT !.calls = @ + 1,
                        !.gate = gate,
                        !.active = (gate = "ok"),
                        !.budget = budget]]
    /\ UNCHANGED gLog

\* a successful reserveChildBudget of an active orchestrator call, followed
\* by runSingleAgent for the child: the child is spawned with the child
\* environment unless the wall-time deadline has been reached (a child past
\* MaxProcs runs too, but the model does not follow what it does)
GuardReserve(p, agent, task, r) ==
    /\ gProcs[p].active
    /\ LET allow == canNestAgent(agent)
           res == reserveChildBudget(gProcs[p].budget, agent.name, task, r, allow)
           id == [proc |-> p, call |-> gProcs[p].calls,
                  fp |-> makeFingerprint(agent.name, task)]
           reserved == [gProcs EXCEPT ![p].budget = res.budget]
       IN /\ res.error = "none"
          /\ gLog' = gLog \cup {[id |-> id, child |-> res.child, tools |-> agent.tools]}
          /\ IF MayLaunch(res.child, gNow) /\ Len(gProcs) < MaxProcs
             THEN gProcs' = Append(reserved, NewProc(p, ChildEnv(res.child), id, gNow))
             ELSE gProcs' = reserved

\* a reserveChildBudget call that throws: the budget is as before and the
\* orchestrator call returns the error
GuardReserveFails(p, agent, task, r) ==
    /\ gProcs[p].active
    /\ LET res == reserveChildBudget(gProcs[p].budget, agent.name, task, r, canNestAgent(agent))
       IN /\ res.error # "none"
          /\ gProcs' = [gProcs EXCEPT ![p].active = FALSE, ![p].budget = res.budget]
    /\ UNCHANGED gLog

\* the orchestrator call returns
GuardReturn(p) ==
    /\ gProcs[p].active
    /\ \A q \in 1..Len(gProcs) : gProcs[q].parent = p => ~gProcs[q].active
    /\ gProcs' = [gProcs EXCEPT ![p].active = FALSE]
    /\ UNCHANGED gLog

GuardIdle == gProcs = <<>> /\ gLog = {}

(***************************************************************************)
(* One call of the subagent tool: execute() in worktree.ts.  The call's    *)
(* inputs are fixed in `call`; `run` holds the locals of execute and the   *)
(* objects it writes (budget, ledger, coordinator run, worktree session).  *)
(* Each handler below is a function from the state of the call to its next *)
(* state; the actions at the end apply them.                               *)
(***************************************************************************)
\* longest chain
MaxChain == 3
\* largest parallel batch that is run (more tasks than MAX_CONCURRENCY)
MaxTasks == 5
\* the clock advances at most this many times by TickMs
MaxTicks == 2

DEFAULT_SMOKE_MAX_RETRIES == 1
DEFAULT_SMOKE_MAX_FIX_ATTEMPTS == 2

\* the agents discovery finds
KnownAgents == {AgentC, AgentS}
NoAgent == [name |-> <<>>, tools |-> NoTools]
getAgentByName(name) ==
    IF \E a \in KnownAgents : a.name = name
    THEN CHOOSE a \in KnownAgents : a.name = name
    ELSE NoAgent

\* plans: task i is "a<i>" for agent c (odd i) or s (even i); a plan may
\* repeat task 1 in other words at position k, or name an unknown agent there,
\* or carry the placeholder {previous} twice in every task
PlanTask(i) == <<"a">> \o NatToStr(i)
PlanTaskVariant(i) == <<" ", "A">> \o NatToStr(i) \o <<" ">>
PlanAgent(i) == IF i % 2 = 1 THEN AgentC.name ELSE AgentS.name
MakePlan(n, bad, k) ==
    [i \in 1..n |->
        [agent |-> IF bad = "unknown" /\ i = k THEN <<"u">>
                   ELSE IF bad = "dup" /\ i = k THEN PlanAgent(1)
                   ELSE PlanAgent(i),
         task |-> IF bad = "dup" /\ i = k THEN PlanTaskVariant(1)
                  ELSE IF bad = "previous"
                  THEN <<"{previous}">> \o PlanTask(i) \o <<"{previous}">>
                  ELSE PlanTask(i)]]

SmallPlans ==
    {[mode |-> "single", items |-> MakePlan(1, "none", 0)],
     [mode |-> "chain", items |-> MakePlan(2, "none", 0)],
     [mode |-> "parallel", items |-> MakePlan(2, "none", 0)]}
Plans ==
    SmallPlans
    \cup {[mode |-> "single", items |-> MakePlan(1, "unknown", 1)]}
    \cup {[mode |-> "chain", items |-> MakePlan(n, "none", 0)] : n \in 1..MaxChain}
    \cup {[mode |-> "chain", items |-> MakePlan(n, bad, n)] :
             n \in 2..MaxChain, bad \in {"dup", "unknown"}}
    \cup {[mode |-> "chain", items |-> MakePlan(n, "previous", 0)] : n \in 2..MaxChain}
    \cup {[mode |-> "parallel", items |-> MakePlan(n, "none", 0)] :
             n \in {1, MaxTasks, MAX_PARALLEL_TASKS + 1}}
    \cup {[mode |-> "parallel", items |-> MakePlan(3, bad, 2)] : bad \in {"dup", "unknown"}}

\* the environment of a nested process: what runSingleAgent wrote for it
NestedEnv(depth, tokens, canSpawn) ==
    ChildEnv([runId |-> FreshRunId,
              nextDepth |-> depth,
              maxDepth |-> DEFAULT_MAX_DEPTH,
              rootStartedAtMs |-> 0,
              deadlineAtMs |-> DEFAULT_MAX_WALL_TIME_MS,
              remainingTokens |-> tokens,
              fingerprints |-> <<makeFingerprint(AgentC.name, TaskAB)>>,
              canSpawnChildren |-> canSpawn])
Envs ==
    {EmptyEnv,
     NestedEnv(1, MaxReserved, TRUE),
     NestedEnv(1, 0, TRUE),
     NestedEnv(1, MaxReserved, FALSE),
     NestedEnv(DEFAULT_MAX_DEPTH, MaxReserved, TRUE)}

\* an optional numeric parameter of the tool call
NoParam == [given |-> FALSE, value |-> 0]
Param(v) == [given |-> TRUE, value |-> v]

\* phase smoke settings of a call: number of smoke commands, requirePhaseSmoke,
\* phaseSmokeRetries, phaseMaxFixAttempts
NoSmoke ==
    [commands |-> 0, requireSmoke |-> FALSE, smokeMaxRetries |-> NoParam,
     smokeMaxFixAttempts |-> NoParam]
SmokeSettings ==
    {NoSmoke,
     [NoSmoke EXCEPT !.commands = 1],
     [NoSmoke EXCEPT !.commands = 1, !.requireSmoke = TRUE],
     [NoSmoke EXCEPT !.requireSmoke = TRUE],
     [NoSmoke EXCEPT !.commands = 1, !.requireSmoke = TRUE,
                     !.smokeMaxRetries = Param(0), !.smokeMaxFixAttempts = Param(1)],
     [NoSmoke EXCEPT !.commands = 1, !.requireSmoke = TRUE,
                     !.smokeMaxRetries = Param(2), !.smokeMaxFixAttempts = Param(0)]}

\* requestedMode, from the modes the parameters provide
requestedMode(modes) ==
    IF "chain" \in modes THEN "chain"
    ELSE IF "parallel" \in modes THEN "parallel"
    ELSE "single"
\* calls that provide no mode or more than one
InvalidModeCalls ==
    UNION {{[env |-> EmptyEnv, plan |-> p, isolation |-> iso, smoke |-> sm, modes |-> ms] :
                p \in {q \in SmallPlans : q.mode = requestedMode(ms)},
                iso \in {"shared", "worktree"},
                sm \in {NoSmoke, [NoSmoke EXCEPT !.commands = 1, !.requireSmoke = TRUE]}} :
           ms \in {{"single", "parallel"}, {"single", "chain"}, {"parallel", "chain"},
                   {"single", "parallel", "chain"}}}
    \cup {[env |-> EmptyEnv, plan |-> [mode |-> "single", items |-> <<>>],
           isolation |-> iso, smoke |-> NoSmoke, modes |-> {}] : iso \in {"shared", "worktree"}}
Calls ==
    {[env |-> e, plan |-> p, isolation |-> "shared", smoke |-> NoSmoke, modes |-> {p.mode}] :
        e \in Envs, p \in Plans}
    \cup {[env |-> EmptyEnv, plan |-> p, isolation |-> iso, smoke |-> sm, modes |-> {p.mode}] :
        p \in SmallPlans, iso \in {"shared", "worktree"}, sm \in SmokeSettings}
    \cup {[env |-> EmptyEnv, plan |-> p, isolation |-> "worktree", smoke |-> NoSmoke,
            modes |-> {p.mode}] :
        p \in {[mode |-> "chain", items |-> MakePlan(2, "unknown", 2)],
               [mode |-> "parallel", items |-> MakePlan(3, "unknown", 2)]}}
    \cup InvalidModeCalls

VARIABLES
    call,            \* the inputs of the call: environment, selected plan, settings
    now,             \* Date.now()
    signalAborted,   \* the AbortSignal handed to execute
    run              \* the state of the call
execVars == <<call, now, signalAborted, run>>

createPhaseGateState(init) ==
    [requireSmoke |-> init.requireSmoke,
     smokeCommands |-> init.commands,
     smokeMaxRetries |-> Max(0, IF init.smokeMaxRetries.given
                                THEN init.smokeMaxRetries.value
                                ELSE DEFAULT_SMOKE_MAX_RETRIES),
     smokeMaxFixAttempts |-> Max(0, IF init.smokeMaxFixAttempts.given
                                    THEN init.smokeMaxFixAttempts.value
                                    ELSE DEFAULT_SMOKE_MAX_FIX_ATTEMPTS),
     smokeAttempts |-> 0,
     smokeFixAttempts |-> 0,
     smokeFixHistory |-> <<>>,
     smokeFailed |-> FALSE,
     topologyStatus |-> "passed",
     smokeRequired |-> init.requireSmoke \/ init.commands > 0,
     smokeStatus |-> IF init.requireSmoke \/ init.commands > 0 THEN "pending" ELSE "skipped"]

validatePhaseGateState(state) ==
    IF state.requireSmoke /\ state.smokeCommands = 0 THEN "config" ELSE "ok"

NewTask(kind, agent, task) ==
    [kind |-> kind, agent |-> agent, task |-> task, state |-> "pending",
     launches |-> 0, spawned |-> FALSE, spawnedAt |-> 0, child |-> NoChild,
     exitCode |-> 0 - 1, stopReason |-> "", output |-> <<>>]

NoCoordinator ==
    [runs |-> 0, phase |-> "none", parallelRunning |-> 0, parallelMax |-> 0,
     currentStep |-> 0, agents |-> <<>>, finishCalls |-> 0]
NoReturn == [kind |-> "none", isError |-> FALSE, text |-> "", step |-> 0]

NewRun(c) ==
    [pc |-> "entry",
     budget |-> NoBudget,
     activeIsolation |-> "shared",
     worktreeSession |-> "none",
     lanes |-> <<>>,
     applied |-> {},
     removable |-> TRUE,
     cleanupCalls |-> 0,
     cleanupWarnings |-> 0,
     storeCreated |-> FALSE,
     ledger |-> {},
     coordinator |-> NoCoordinator,
     coordinatorFinished |-> FALSE,
     phaseGateState |-> createPhaseGateState(c.smoke),
     tasks |-> [i \in 1..Len(c.plan.items) |->
                   NewTask("plan", c.plan.items[i].agent, c.plan.items[i].task)],
     local |-> [i |-> 0, baseDescendants |-> 0, remainder |-> 0,
                previousOutput |-> <<>>, nextIndex |-> 0, workers |-> 0,
                fixAttempt |-> 0, smokeRuns |-> 0],
     ret |-> NoReturn]

\* the tool result built by createBudgetError: text and details, no isError
createBudgetError(message) ==
    [kind |-> "result", isError |-> FALSE, text |-> message, step |-> 0]
ErrorResult(message, step) ==
    [kind |-> "result", isError |-> TRUE, text |-> message, step |-> step]

\* CoordinatorMonitor
startRun(n, parallelMax) ==
    [runs |-> 1, phase |-> "starting", parallelRunning |-> 0,
     parallelMax |-> Max(0, parallelMax), currentStep |-> 0,
     agents |-> [i \in 1..n |-> "pending"], finishCalls |-> 0]
setPhase(s, phase) == [s EXCEPT !.coordinator.phase = phase]
markAgent(s, index, status) ==
    IF index \in 1..Len(s.coordinator.agents)
    THEN [s EXCEPT !.coordinator.agents[index] = status]
    ELSE s
setParallelRunning(s, running) == [s EXCEPT !.coordinator.parallelRunning = Max(0, running)]
finishRun(coordinator, success) ==
    [coordinator EXCEPT !.phase = IF success THEN "done" ELSE "error",
                        !.parallelRunning = 0,
                        !.finishCalls = @ + 1]
\* variant of finishCoordinator without the coordinatorFinished flag
finishCoordinator_Unguarded(s, success) ==
    [s EXCEPT !.coordinatorFinished = TRUE,
              !.coordinator = finishRun(@, success)]
finishCoordinator(s, success) ==
    IF s.coordinatorFinished THEN s
    ELSE [s EXCEPT !.coordinatorFinished = TRUE,
                   !.coordinator = finishRun(@, success)]

\* a return before the try block
Returned(s, r) == [s EXCEPT !.pc = "returned", !.ret = r]
\* a return or throw inside the try block: the finally clause removes the
\* worktree session and finishes the coordinator run if nothing did
\* variant of the finally clause that cleans up only a session with lanes
cleanupWorktreeSession_OnlyLanes(s) ==
    IF s.worktreeSession = "active" /\ s.lanes # <<>>
    THEN [s EXCEPT !.worktreeSession = "cleaned",
                   !.cleanupCalls = @ + 1,
                   !.cleanupWarnings = @ + (IF s.removable THEN 0 ELSE Len(s.lanes)),
                   !.lanes = [k \in 1..Len(@) |-> [@[k] EXCEPT !.removed = TRUE]]]
    ELSE s
\* `if (worktreeSession) cleanupWorktreeSession(worktreeSession)`: every lane
\* is gone through; a lane whose worktree git cannot remove leaves a warning
cleanupWorktreeSession(s) ==
    IF s.worktreeSession = "active"
    THEN [s EXCEPT !.worktreeSession = "cleaned",
                   !.cleanupCalls = @ + 1,
                   !.cleanupWarnings = @ + (IF s.removable THEN 0 ELSE Len(s.lanes)),
                   !.lanes = [k \in 1..Len(@) |-> [@[k] EXCEPT !.removed = TRUE]]]
    ELSE s
Leave(s, r) == Returned(finishCoordinator(cleanupWorktreeSession(s), FALSE), r)

\* createWorktreeAssignment during a worktree session: a lane (branch and
\* worktree at the head of the repository) for task `task`; the lane of a chain
\* serves all its steps and is filed under 0
createWorktreeAssignment(s, task) ==
    IF s.worktreeSession = "active"
    THEN [s EXCEPT !.lanes = Append(@, [task |-> task, report |-> "none", removed |-> FALSE])]
    ELSE s

\* String.prototype.replace with a string as replacement: in the replacement
\* "$$" stands for "$", "$&" for the matched text, "$`" for the text before the
\* match and "$'" for the text after it; "$" before anything else is itself
\* (the pattern has no capture groups).  The placeholder {previous} is one
\* element of the text.
RECURSIVE ExpandReplacement(_, _, _)
ExpandReplacement(replacement, before, after) ==
    IF replacement = <<>> THEN <<>>
    ELSE IF Head(replacement) = "$" /\ Len(replacement) >= 2
    THEN LET x == replacement[2]
             rest == SubSeq(replacement, 3, Len(replacement))
         IN IF x = "$" THEN <<"$">> \o ExpandReplacement(rest, before, after)
            ELSE IF x = "&" THEN <<"{previous}">> \o ExpandReplacement(rest, before, after)
            ELSE IF x = "`" THEN before \o ExpandReplacement(rest, before, after)
            ELSE IF x = "'" THEN after \o ExpandReplacement(rest, before, after)
            ELSE <<"$">> \o ExpandReplacement(Tail(replacement), before, after)
    ELSE <<Head(replacement)>> \o ExpandReplacement(Tail(replacement), before, after)

RECURSIVE ReplaceFrom(_, _, _)
ReplaceFrom(task, k, replacement) ==
    IF k > Len(task) THEN <<>>
    ELSE (IF task[k] = "{previous}"
          THEN ExpandReplacement(replacement, SubSeq(task, 1, k - 1),
                                 SubSeq(task, k + 1, Len(task)))
          ELSE <<task[k]>>)
            \o ReplaceFrom(task, k + 1, replacement)

\* step.task.replace(/\{previous\}/g, previousOutput)
ReplacePrevious(task, previousOutput) == ReplaceFrom(task, 1, previousOutput)

\* prepareDelegation: the dispatch entry is appended to the ledger
prepareDelegation(s, index, rawTask) ==
    [s EXCEPT !.ledger = @ \cup {[type |-> "dispatch", task |-> index, status |-> ""]},
              !.tasks[index].state = "dispatched",
              !.tasks[index].task = rawTask]

appendObservation(s, index, isError) ==
    [s EXCEPT !.ledger = @ \cup {[type |-> "observation", task |-> index,
                                  status |-> IF isError THEN "error" ELSE "success"]}]

\* a successful reserveChildBudget: the budget is charged, the child budget kept
Reserved(s, index, res) ==
    [s EXCEPT !.budget = res.budget,
              !.tasks[index].state = "reserved",
              !.tasks[index].child = res.child]

\* runSingleAgent up to the point where the child process exists, or where the
\* launch is given up because the deadline is reached
runSingleAgent(s, index, nowMs) ==
    IF MayLaunch(s.tasks[index].child, nowMs)
    THEN [s EXCEPT !.tasks[index].state = "running",
                   !.tasks[index].launches = @ + 1,
                   !.tasks[index].spawned = TRUE,
                   !.tasks[index].spawnedAt = nowMs]
    ELSE [s EXCEPT !.tasks[index].state = "done",
                   !.tasks[index].launches = @ + 1,
                   !.tasks[index].exitCode = 1]

\* what a child process can end with: exit code, stop reason of its last
\* assistant message, final output.  Once the deadline is reached the timer
\* has fired and the stop reason is overwritten by "error".
NormalOutcomes ==
    {[exitCode |-> 0, stopReason |-> "stop", output |-> <<"o">>],
     [exitCode |-> 1, stopReason |-> "stop", output |-> <<>>],
     [exitCode |-> 0, stopReason |-> "error", output |-> <<>>],
     [exitCode |-> 0, stopReason |-> "aborted", output |-> <<>>]}
\* final outputs that hold a dollar sign (a price, a shell variable, display
\* math); they are followed where an output is used again: in the step of a
\* chain whose tasks carry the placeholder
DollarOutputs == {<<"$", "$", "5">>, <<"$", "&">>, <<"$", "1">>}
HasPlaceholder(task) == \E k \in 1..Len(task) : task[k] = "{previous}"
DollarOutcomes(c, index) ==
    IF /\ c.plan.mode = "chain"
       /\ index <= Len(c.plan.items)
       /\ HasPlaceholder(c.plan.items[index].task)
    THEN {[exitCode |-> 0, stopReason |-> "stop", output |-> o] : o \in DollarOutputs}
    ELSE {}
TimedOutOutcomes ==
    {[exitCode |-> c, stopReason |-> "error", output |-> <<>>] : c \in {0, 1}}
Outcomes(c, t, index, nowMs) ==
    IF nowMs >= t.child.deadlineAtMs THEN TimedOutOutcomes
    ELSE NormalOutcomes \cup DollarOutcomes(c, index)

\* variant that looks at the exit code only
IsError_ExitCodeOnly(result) == result.exitCode # 0
IsError(result) ==
    result.exitCode # 0 \/ result.stopReason = "error" \/ result.stopReason = "aborted"

\* budget initialization and gate checks, worktree session, ledger store and
\* coordinator run: execute up to the try block
executeSelected(s, c, nowMs, sessionOk, removable) ==
    IF validatePhaseGateState(s.phaseGateState) # "ok"
    THEN Returned(s, createBudgetError(validatePhaseGateState(s.phaseGateState)))
    ELSE LET budget == initializeExecutionBudget(c.env, nowMs)
             gate == BudgetGate(budget, nowMs)
             s1 == [s EXCEPT !.budget = budget]
             n == Len(c.plan.items)
         IN IF gate # "ok" THEN Returned(s1, createBudgetError(gate))
            ELSE [s1 EXCEPT
                    !.activeIsolation =
                        IF c.isolation = "worktree" /\ sessionOk THEN "worktree" ELSE "shared",
                    !.worktreeSession =
                        IF c.isolation = "worktree" /\ sessionOk THEN "active" ELSE "none",
                    !.removable = removable,
                    !.storeCreated = TRUE,
                    !.coordinator =
                        [startRun(n, IF c.plan.mode = "parallel" THEN Min(n, MAX_CONCURRENCY) ELSE 0)
                            EXCEPT !.phase = "dispatch"],
                    !.pc = c.plan.mode]

\* variant without the check of the number of modes
execute_AnyModeCount(s, c, nowMs, sessionOk, removable) ==
    executeSelected(s, c, nowMs, sessionOk, removable)
\* execute from its entry: exactly one mode, then the selected plan
execute(s, c, nowMs, sessionOk, removable) ==
    IF Cardinality(c.modes) # 1
    THEN Returned(s, createBudgetError("invalidParameters"))
    ELSE executeSelected(s, c, nowMs, sessionOk, removable)

\* ---- chain mode ----
chainResult(s, c, i) ==
    LET result == s.tasks[i]
        isError == IsError(result)
        s1 == appendObservation(s, i, isError)
    IN IF isError
       THEN Leave(finishCoordinator(markAgent(s1, i, "error"), FALSE),
                  ErrorResult("chainStopped", i))
       ELSE LET s2 == [markAgent(s1, i, "done") EXCEPT !.local.previousOutput = result.output]
            IN IF i < Len(c.plan.items)
               THEN [s2 EXCEPT !.pc = "chainStep", !.local.i = i + 1]
               ELSE [s2 EXCEPT !.pc = "integrate"]

\* variant without the budget check
chainStart_NoBudgetCheck(s, c, assignmentOk) ==
    LET s1 == setPhase(s, "running")
    IN IF s1.worktreeSession = "active" /\ ~assignmentOk
       THEN Leave(finishCoordinator(s1, FALSE), ErrorResult("worktreeFailed", 0))
       ELSE [createWorktreeAssignment(s1, 0) EXCEPT
                !.pc = "chainStep", !.local.i = 1, !.local.previousOutput = <<>>]
chainStart(s, c, assignmentOk) ==
    LET s1 == setPhase(s, "running")
    IN IF s1.budget.remainingTokens < Len(c.plan.items)
       THEN Leave(s1, createBudgetError("chainInsufficient"))
       ELSE IF s1.worktreeSession = "active" /\ ~assignmentOk
       THEN Leave(finishCoordinator(s1, FALSE), ErrorResult("worktreeFailed", 0))
       ELSE [createWorktreeAssignment(s1, 0) EXCEPT
                !.pc = "chainStep", !.local.i = 1, !.local.previousOutput = <<>>]

\* the tokens a step leaves to the parent: one for itself and one for each
\* step after it (the steps of the model count from 1)
\* variant that keeps a token for the step itself only
minRequired_ThisStepOnly(n, i) == 1
\* variant that keeps one token more than the steps need
minRequired_SpareToken(n, i) == (n - i) + 2
minRequired(n, i) ==
    LET remainingDirectSteps == n - i
    IN remainingDirectSteps + 1

chainStep(s, c, nowMs) ==
    LET i == s.local.i
        step == c.plan.items[i]
        taskWithContext == ReplacePrevious(step.task, s.local.previousOutput)
        s1 == prepareDelegation(s, i, taskWithContext)
        stepAgent == getAgentByName(step.agent)
        res == reserveChildBudget(s1.budget, step.agent, taskWithContext,
                                  s1.budget.remainingTokens - minRequired(Len(c.plan.items), i),
                                  canNestAgent(stepAgent))
    IN IF stepAgent = NoAgent THEN Leave(s1, createBudgetError("unknownAgent"))
       ELSE IF nowMs > s1.budget.deadlineAtMs THEN Leave(s1, createBudgetError("deadlineChain"))
       ELSE IF s1.budget.remainingTokens < minRequired(Len(c.plan.items), i)
       THEN Leave(s1, createBudgetError("chainExhausted"))
       ELSE IF res.error # "none" THEN Leave(s1, createBudgetError(res.error))
       ELSE LET s2 == [markAgent(Reserved(s1, i, res), i, "running")
                          EXCEPT !.coordinator.currentStep = i]
                s3 == runSingleAgent(s2, i, nowMs)
            IN IF s3.tasks[i].state = "running"
               THEN [s3 EXCEPT !.pc = "wait"]
               ELSE chainResult(s3, c, i)

\* ---- parallel mode ----
\* variant without the limit on the number of tasks
ParallelPrecheck_NoTaskLimit(budget, n, nowMs) ==
    IF budget.remainingTokens < n THEN "parallelInsufficient"
    ELSE IF nowMs > budget.deadlineAtMs THEN "deadlineParallel"
    ELSE "ok"
ParallelPrecheck(budget, n, nowMs) ==
    IF n > MAX_PARALLEL_TASKS THEN "tooMany"
    ELSE IF budget.remainingTokens < n THEN "parallelInsufficient"
    ELSE IF nowMs > budget.deadlineAtMs THEN "deadlineParallel"
    ELSE "ok"

\* mapWithConcurrencyLimit: the number of workers
\* variant with one worker per item
ConcurrencyLimit_AllItems(concurrency, n) == Max(1, n)
ConcurrencyLimit(concurrency, n) == Max(1, Min(concurrency, n))

parallelStart(s, c, nowMs) ==
    LET n == Len(c.plan.items)
        s1 == setParallelRunning(setPhase(s, "running"), 0)
        check == ParallelPrecheck(s1.budget, n, nowMs)
        descendantsPool == s1.budget.remainingTokens - n
    IN IF check # "ok" THEN Leave(s1, createBudgetError(check))
       ELSE [s1 EXCEPT !.pc = "reserve",
                       !.local.i = 1,
                       !.local.baseDescendants = descendantsPool \div n,
                       !.local.remainder = descendantsPool % n]

\* the descendant tokens of the next task of the batch
\* variant that leaves the remainder with the parent
reservedDescendantTokens_NoRemainder(baseDescendants, remainder) == baseDescendants
reservedDescendantTokens(baseDescendants, remainder) ==
    baseDescendants + (IF remainder > 0 THEN 1 ELSE 0)

parallelReserve(s, c, assignmentOk) ==
    LET i == s.local.i
        n == Len(c.plan.items)
        task == c.plan.items[i]
        taskAgent == getAgentByName(task.agent)
        s1 == prepareDelegation(createWorktreeAssignment(s, i), i, task.task)
        res == reserveChildBudget(s1.budget, task.agent, task.task,
                                  reservedDescendantTokens(s.local.baseDescendants,
                                                           s.local.remainder),
                                  canNestAgent(taskAgent))
    IN IF taskAgent = NoAgent THEN Leave(s, createBudgetError("unknownAgent"))
       ELSE IF s.worktreeSession = "active" /\ ~assignmentOk
       THEN Leave(s, createBudgetError("worktreeFailed"))
       ELSE IF res.error # "none" THEN Leave(s1, createBudgetError(res.error))
       ELSE LET s2 == [Reserved(s1, i, res) EXCEPT
                          !.local.remainder = IF @ > 0 THEN @ - 1 ELSE @]
            IN IF i < n
               THEN [s2 EXCEPT !.local.i = i + 1]
               ELSE [s2 EXCEPT !.pc = "launch"]

InFlight(s) == {i \in 1..Len(s.tasks) : s.tasks[i].state = "running"}

parallelResult(s, index) ==
    LET isError == IsError(s.tasks[index])
        s1 == appendObservation(s, index, isError)
        s2 == markAgent(s1, index, IF isError THEN "error" ELSE "done")
    IN setParallelRunning(s2, s2.coordinator.parallelRunning - 1)

\* the loop of one worker of mapWithConcurrencyLimit, from taking the next
\* index to the point where it waits for a child or returns; a task whose
\* launch is given up has its result at once and the loop goes on
RECURSIVE workerLoop(_, _, _)
\* variant in which a worker takes no further task once a task has failed
workerLoop_StopAtFailure(s, c, nowMs) ==
    LET current == s.local.nextIndex
        s1 == [s EXCEPT !.local.nextIndex = current + 1]
        failed == \E i \in 1..Len(c.plan.items) :
                      s.tasks[i].state = "done" /\ IsError(s.tasks[i])
    IN IF current > Len(c.plan.items) \/ failed
       THEN LET s2 == [s1 EXCEPT !.local.workers = @ - 1]
            IN IF s2.local.workers = 0 /\ s2.pc = "pool"
               THEN [s2 EXCEPT !.pc = "integrate"]
               ELSE s2
       ELSE LET s2 == setParallelRunning(markAgent(s1, current, "running"),
                                         s1.coordinator.parallelRunning + 1)
                s3 == runSingleAgent(s2, current, nowMs)
            IN IF s3.tasks[current].state = "running"
               THEN s3
               ELSE workerLoop(parallelResult(s3, current), c, nowMs)
workerLoop(s, c, nowMs) ==
    LET current == s.local.nextIndex
        s1 == [s EXCEPT !.local.nextIndex = current + 1]
    IN IF current > Len(c.plan.items)
       THEN LET s2 == [s1 EXCEPT !.local.workers = @ - 1]
            IN IF s2.local.workers = 0 /\ s2.pc = "pool"
               THEN [s2 EXCEPT !.pc = "integrate"]
               ELSE s2
       ELSE LET s2 == setParallelRunning(markAgent(s1, current, "running"),
                                         s1.coordinator.parallelRunning + 1)
                s3 == runSingleAgent(s2, current, nowMs)
            IN IF s3.tasks[current].state = "running"
               THEN s3
               ELSE workerLoop(parallelResult(s3, current), c, nowMs)

RECURSIVE startWorkers(_, _, _, _)
startWorkers(s, c, nowMs, k) ==
    IF k = 0 THEN s ELSE startWorkers(workerLoop(s, c, nowMs), c, nowMs, k - 1)

\* mapWithConcurrencyLimit: the workers start one after the other
mapWithConcurrencyLimit(s, c, nowMs) ==
    LET limit == ConcurrencyLimit(MAX_CONCURRENCY, Len(c.plan.items))
    IN startWorkers([s EXCEPT !.pc = "pool", !.local.nextIndex = 1, !.local.workers = limit],
                    c, nowMs, limit)

\* ---- single mode ----
singleResult(s, c) ==
    LET isError == IsError(s.tasks[1])
        s1 == appendObservation(s, 1, isError)
    IN IF isError
       THEN Leave(finishCoordinator(markAgent(s1, 1, "error"), FALSE),
                  ErrorResult("agentFailed", 0))
       ELSE [setPhase(markAgent(s1, 1, "done"), "finalizing") EXCEPT !.pc = "integrate"]

singleRun(s, c, nowMs, assignmentOk) ==
    LET selectedSingle == c.plan.items[1]
        s1 == [markAgent(setPhase(s, "running"), 1, "running")
                  EXCEPT !.coordinator.currentStep = 1]
        singleAgent == getAgentByName(selectedSingle.agent)
        s2 == prepareDelegation(createWorktreeAssignment(s1, 1), 1, selectedSingle.task)
        res == reserveChildBudget(s2.budget, selectedSingle.agent, selectedSingle.task,
                                  Max(0, s2.budget.remainingTokens - 1),
                                  canNestAgent(singleAgent))
    IN IF singleAgent = NoAgent THEN Leave(s1, createBudgetError("unknownAgent"))
       ELSE IF nowMs > s1.budget.deadlineAtMs THEN Leave(s1, createBudgetError("deadline"))
       ELSE IF s1.worktreeSession = "active" /\ ~assignmentOk
       THEN Leave(finishCoordinator(s1, FALSE), ErrorResult("worktreeFailed", 0))
       ELSE IF res.error # "none" THEN Leave(s2, createBudgetError(res.error))
       ELSE LET s3 == runSingleAgent(Reserved(s2, 1, res), 1, nowMs)
            IN IF s3.tasks[1].state = "running"
               THEN [s3 EXCEPT !.pc = "wait"]
               ELSE singleResult(s3, c)

\* ---- integration, phase smoke gate, fix loop ----
\* the call ends well: the coordinator run is finished, as success unless a
\* parallel task has a non-zero exit code
complete(s, c, smokeMessage) ==
    LET allSucceeded ==
            \A i \in 1..Len(c.plan.items) : s.tasks[i].exitCode = 0
        s1 == IF c.plan.mode = "single" THEN s ELSE setPhase(s, "finalizing")
    IN Leave(finishCoordinator(s1, c.plan.mode # "parallel" \/ allSucceeded),
             [kind |-> "result", isError |-> FALSE, text |-> smokeMessage, step |-> 0])

gateFailed(s) == Leave(finishCoordinator(s, FALSE), ErrorResult("smokeFailed", 0))

\* the lanes handed to integrateAssignments: the chain's or the single task's
\* lane, or the lanes of the parallel tasks whose exit code is 0
successfulAssignments(s, c) ==
    {k \in 1..Len(s.lanes) :
        c.plan.mode = "parallel" => s.tasks[s.lanes[k].task].exitCode = 0}

ReportStatuses == {"applied", "skipped", "failed"}
\* integrateWorktreeAssignments: every lane handed over gets its report, after
\* a failed lane too; the patch of an applied lane is in the repository root
integrateWorktreeAssignments(s, assignments, reports) ==
    [s EXCEPT !.lanes = [k \in 1..Len(@) |->
                            IF k \in assignments
                            THEN [@[k] EXCEPT !.report = reports[k]]
                            ELSE @[k]],
              !.applied = @ \cup {s.lanes[k].task : k \in {x \in assignments :
                                                              reports[x] = "applied"}}]

\* variant that goes on to the smoke gate after a failed lane
integrate_IgnoreFailure(s, c, reports) ==
    LET assignments == successfulAssignments(s, c)
    IN IF s.activeIsolation # "worktree" \/ s.worktreeSession # "active" \/ assignments = {}
       THEN [s EXCEPT !.pc = "smoke"]
       ELSE [integrateWorktreeAssignments(s, assignments, reports) EXCEPT !.pc = "smoke"]
\* integrateAssignments and the return that follows a failed report
integrate(s, c, reports) ==
    LET assignments == successfulAssignments(s, c)
        s1 == integrateWorktreeAssignments(s, assignments, reports)
    IN IF s.activeIsolation # "worktree" \/ s.worktreeSession # "active" \/ assignments = {}
       THEN [s EXCEPT !.pc = "smoke"]
       ELSE IF \E k \in assignments : reports[k] = "failed"
       THEN Leave(finishCoordinator(s1, FALSE), ErrorResult("integrationFailed", 0))
       ELSE [s1 EXCEPT !.pc = "smoke"]

\* runSmokeWithRetries: the smoke commands are run until a run passes or the
\* retries are used up; outcomes[k] tells whether the k-th run would pass.
\* local.smokeRuns keeps the number of runs of the sequence.
\* variant in which a failing run puts the gate back to pending
applySmokeResults_Pending(s, passed) ==
    [s EXCEPT !.phaseGateState.smokeFailed = ~passed,
              !.phaseGateState.smokeStatus = IF passed THEN "passed" ELSE "pending"]
\* a run of one command or more gives one result or more
applySmokeResults(s, passed) ==
    [s EXCEPT !.phaseGateState.smokeFailed = ~passed,
              !.phaseGateState.smokeStatus =
                  IF s.phaseGateState.smokeRequired \/ s.phaseGateState.smokeCommands > 0
                  THEN IF passed THEN "passed" ELSE "failed"
                  ELSE @]
markSmokeSkipped(s) ==
    [s EXCEPT !.phaseGateState.smokeStatus =
                  IF ~s.phaseGateState.smokeRequired THEN "skipped" ELSE @]
RECURSIVE smokeRetryLoop(_, _, _)
\* variant with one more turn of the loop
smokeRetryLoop_ExtraRetry(s, retry, outcomes) ==
    IF retry > s.phaseGateState.smokeMaxRetries + 1 THEN s
    ELSE LET passed == outcomes[Min(retry + 1, Len(outcomes))]
             s1 == [s EXCEPT !.phaseGateState.smokeAttempts = @ + 1,
                             !.local.smokeRuns = retry + 1]
             s2 == applySmokeResults(s1, passed)
         IN IF passed THEN s2 ELSE smokeRetryLoop(s2, retry + 1, outcomes)
smokeRetryLoop(s, retry, outcomes) ==
    IF retry > s.phaseGateState.smokeMaxRetries THEN s
    ELSE LET passed == outcomes[retry + 1]
             s1 == [s EXCEPT !.phaseGateState.smokeAttempts = @ + 1,
                             !.local.smokeRuns = retry + 1]
             s2 == applySmokeResults(s1, passed)
         IN IF passed THEN s2 ELSE smokeRetryLoop(s2, retry + 1, outcomes)
runSmokeWithRetries(s, outcomes) == smokeRetryLoop(s, 0, outcomes)

recordSmokeFixAttempt(s, attempt, outcome) ==
    [s EXCEPT !.phaseGateState.smokeFixAttempts = Max(@, attempt),
              !.phaseGateState.smokeFixHistory =
                  Append(@, [attempt |-> attempt, outcome |-> outcome])]

getFixAgent(c) ==
    LET n == Len(c.plan.items)
        preferredAgent == IF c.plan.mode = "single" THEN c.plan.items[1].agent
                          ELSE IF c.plan.mode = "chain" THEN c.plan.items[n].agent
                          ELSE c.plan.items[1].agent
    IN getAgentByName(preferredAgent)

RemediationTask(fixAttempt) == <<"f", "i", "x", " ">> \o NatToStr(fixAttempt)

\* variant in which a failing smoke run fails the gate whether required or not
smokeGate_AlwaysRequired(s, c, outcomes) ==
    LET s1 == runSmokeWithRetries(s, outcomes)
    IN IF s.pc # "smoke" \/ s.phaseGateState.smokeCommands = 0
       THEN complete(s, c, "ok")
       ELSE IF s1.phaseGateState.smokeFailed THEN gateFailed(s1)
       ELSE complete(s1, c, "ok")

\* runPhaseSmokeGate up to the fix loop, and the smoke run after a fix
smokeGate(s, c, outcomes) ==
    IF s.pc = "smoke"
    THEN IF s.phaseGateState.smokeCommands = 0 THEN complete(markSmokeSkipped(s), c, "ok")
         ELSE LET s1 == runSmokeWithRetries(s, outcomes)
                  passed == ~s1.phaseGateState.smokeFailed
                  retryCount == Max(0, s1.phaseGateState.smokeAttempts - 1)
              IN IF passed
                 THEN complete(s1, c, IF retryCount > 0 THEN "okAfterRetry" ELSE "ok")
                 ELSE IF ~s1.phaseGateState.requireSmoke THEN complete(s1, c, "okSmokeWarning")
                 ELSE IF getFixAgent(c) = NoAgent \/ s1.phaseGateState.smokeMaxFixAttempts = 0
                 THEN gateFailed(s1)
                 ELSE [s1 EXCEPT !.pc = "fix", !.local.fixAttempt = 1]
    ELSE LET s1 == runSmokeWithRetries(s, outcomes)
             passed == ~s1.phaseGateState.smokeFailed
         IN IF passed
            THEN complete(recordSmokeFixAttempt(s1, s.local.fixAttempt, "success"),
                          c, "okAfterFix")
            ELSE [recordSmokeFixAttempt(s1, s.local.fixAttempt, "error")
                     EXCEPT !.pc = "fix", !.local.fixAttempt = @ + 1]

fixResult(s, index) ==
    LET fixFailed == IsError(s.tasks[index])
        s1 == appendObservation(s, index, fixFailed)
    IN IF fixFailed
       THEN [recordSmokeFixAttempt(s1, s1.local.fixAttempt, "error")
                EXCEPT !.pc = "fix", !.local.fixAttempt = @ + 1]
       ELSE [s1 EXCEPT !.pc = "postFixSmoke"]

\* one turn of the fix loop
fixAttempt(s, c, nowMs) ==
    LET attempt == s.local.fixAttempt
        fixAgent == getFixAgent(c)
        index == Len(s.tasks) + 1
        s1 == prepareDelegation(
                 [s EXCEPT !.tasks = Append(@, NewTask("fix", fixAgent.name,
                                                       RemediationTask(attempt)))],
                 index, RemediationTask(attempt))
        res == reserveChildBudget(s1.budget, fixAgent.name, RemediationTask(attempt), 0,
                                  canNestAgent(fixAgent))
    IN IF attempt > s.phaseGateState.smokeMaxFixAttempts THEN gateFailed(s)
       ELSE IF s.budget.remainingTokens <= 0
       THEN gateFailed(recordSmokeFixAttempt(s, attempt, "error"))
       ELSE IF res.error # "none"
       THEN gateFailed(recordSmokeFixAttempt(s1, attempt, "error"))
       ELSE LET s2 == runSingleAgent(Reserved(s1, index, res), index, nowMs)
            IN IF s2.tasks[index].state = "running"
               THEN [s2 EXCEPT !.pc = "wait"]
               ELSE fixResult(s2, index)

\* ---- the end of a child process ----
\* the close event of child `index` with the given outcome
childCloses(s, c, index, outcome, nowMs) ==
    LET s1 == [s EXCEPT !.tasks[index].state = "done",
                        !.tasks[index].exitCode = outcome.exitCode,
                        !.tasks[index].stopReason = outcome.stopReason,
                        !.tasks[index].output = outcome.output]
    IN IF s.tasks[index].kind = "fix" THEN fixResult(s1, index)
       ELSE IF c.plan.mode = "chain" THEN chainResult(s1, c, index)
       ELSE IF c.plan.mode = "parallel" THEN workerLoop(parallelResult(s1, index), c, nowMs)
       ELSE singleResult(s1, c)

\* the close event of a child killed by the abort handler: runSingleAgent
\* throws, the error leaves execute (a parallel worker ends with it)
childAborted(s, c, index) ==
    LET s1 == [s EXCEPT !.tasks[index].state = "thrown",
                        !.local.workers = IF c.plan.mode = "parallel" /\ @ > 0 THEN @ - 1 ELSE @]
    IN IF s1.pc = "returned" THEN s1
       ELSE Leave(s1, [kind |-> "throw", isError |-> TRUE, text |-> "aborted", step |-> 0])

\* ---- actions ----
NoCall ==
    [env |-> EmptyEnv, plan |-> [mode |-> "single", items |-> <<>>],
     isolation |-> "shared", smoke |-> NoSmoke, modes |-> {}]

ExecInit ==
    /\ call \in Calls
    /\ now \in {0, MaxTicks * TickMs}
    /\ signalAborted = FALSE
    /\ run = NewRun(call)

ExecIdle ==
    /\ call = NoCall
    /\ now = 0
    /\ signalAborted = FALSE
    /\ run = NewRun(NoCall)

Execute ==
    /\ run.pc = "entry"
    /\ \E sessionOk \in BOOLEAN, removable \in BOOLEAN :
          /\ ~removable => (sessionOk /\ call.isolation = "worktree")
          /\ run' = execute(run, call, now, sessionOk, removable)
    /\ UNCHANGED <<call, now, signalAborted>>

ChainStart ==
    /\ run.pc = "chain"
    /\ \E assignmentOk \in BOOLEAN : run' = chainStart(run, call, assignmentOk)
    /\ UNCHANGED <<call, now, signalAborted>>

ChainStep ==
    /\ run.pc = "chainStep"
    /\ run' = chainStep(run, call, now)
    /\ UNCHANGED <<call, now, signalAborted>>

ParallelStart ==
    /\ run.pc = "parallel"
    /\ run' = parallelStart(run, call, now)
    /\ UNCHANGED <<call, now, signalAborted>>

ParallelReserve ==
    /\ run.pc = "reserve"
    /\ \E assignmentOk \in BOOLEAN : run' = parallelReserve(run, call, assignmentOk)
    /\ UNCHANGED <<call, now, signalAborted>>

ParallelLaunch ==
    /\ run.pc = "launch"
    /\ run' = mapWithConcurrencyLimit(run, call, now)
    /\ UNCHANGED <<call, now, signalAborted>>

SingleRun ==
    /\ run.pc = "single"
    /\ \E assignmentOk \in BOOLEAN : run' = singleRun(run, call, now, assignmentOk)
    /\ UNCHANGED <<call, now, signalAborted>>

ChildCloses ==
    /\ \E index \in InFlight(run) :
          IF signalAborted
          THEN run' = childAborted(run, call, index)
          ELSE \E outcome \in Outcomes(call, run.tasks[index], index, now) :
                  run' = childCloses(run, call, index, outcome, now)
    /\ UNCHANGED <<call, now, signalAborted>>

Integrate ==
    /\ run.pc = "integrate"
    /\ \E reports \in [1..Len(run.lanes) -> ReportStatuses] :
          run' = integrate(run, call, reports)
    /\ UNCHANGED <<call, now, signalAborted>>

\* an aborted smoke command ends with exit code 130
SmokeGate ==
    /\ run.pc \in {"smoke", "postFixSmoke"}
    /\ \E outcomes \in [1..(run.phaseGateState.smokeMaxRetries + 1) -> BOOLEAN] :
          /\ signalAborted => \A k \in DOMAIN outcomes : ~outcomes[k]
          /\ run' = smokeGate(run, call, outcomes)
    /\ UNCHANGED <<call, now, signalAborted>>

FixAttempt ==
    /\ run.pc = "fix"
    /\ run' = fixAttempt(run, call, now)
    /\ UNCHANGED <<call, now, signalAborted>>

Tick ==
    /\ run.pc # "entry"
    /\ run.pc # "returned" \/ InFlight(run) # {}
    /\ now < MaxTicks * TickMs
    /\ now' = now + TickMs
    /\ UNCHANGED <<call, signalAborted, run>>

Abort ==
    /\ run.pc \notin {"entry", "returned"}
    /\ ~signalAborted
    /\ signalAborted' = TRUE
    /\ UNCHANGED <<call, now, run>>


(***************************************************************************)
(* LedgerSpec: the shared-context store of one run under a chain.  Every   *)
(* step appends its dispatch, reads the recent entries into its handoff    *)
(* packet, runs its child and appends its observation; a child that        *)
(* delegates appends entries of its own to the same file.                  *)
(***************************************************************************)
DEFAULT_CONTEXT_LIMIT == 12
MAX_CONTEXT_LIMIT == 50
MAX_READ_LIMIT == 100

\* longest chain followed through the store (longer than half the default
\* limit), and the entries nested children append during one chain
MaxLedgerChain == 7
MaxChildEntries == 2

\* sharedContextConfig.limit
sharedContextLimit(param, envValue) ==
    Max(1, Min(MAX_CONTEXT_LIMIT,
               IF param.given THEN param.value
               ELSE parseIntegerEnv(envValue, DEFAULT_CONTEXT_LIMIT)))

\* the lines of the ledger file
DispatchEntry(runId, taskId, agent, contextMode) ==
    [type |-> "dispatch", runId |-> runId, taskId |-> taskId, agent |-> agent,
     status |-> "", contextMode |-> contextMode]
ObservationEntry(runId, taskId, agent, status) ==
    [type |-> "observation", runId |-> runId, taskId |-> taskId, agent |-> agent,
     status |-> status, contextMode |-> ""]
DecisionEntry(runId, taskId, coordinator) ==
    [type |-> "decision", runId |-> runId, taskId |-> taskId, agent |-> coordinator,
     status |-> "", contextMode |-> ""]

\* the last `count` elements of a sequence
LastOf(entries, count) ==
    IF Len(entries) <= count THEN entries
    ELSE SubSeq(entries, Len(entries) - count + 1, Len(entries))

\* a line that is not JSON (a torn or foreign line); the text of a run id may
\* well occur in it
MalformedLine(runId) ==
    [type |-> "malformed", runId |-> runId, taskId |-> 0, agent |-> <<>>,
     status |-> "", contextMode |-> ""]
\* JSON.parse of a line of the file
JSONparse(line) ==
    IF line.type = "malformed"
    THEN [ok |-> FALSE, value |-> line]
    ELSE [ok |-> TRUE, value |-> line]

\* variant that returns the oldest entries
readRecent_Oldest(file, runId, limit) ==
    LET boundedLimit == Max(1, Min(MAX_READ_LIMIT, limit))
        entries == SelectSeq(file, LAMBDA e : JSONparse(e).ok /\ JSONparse(e).value.runId = runId)
    IN SubSeq(entries, 1, Min(Len(entries), boundedLimit))
\* variant that takes every line with the run id in it
readRecent_AnyLine(file, runId, limit) ==
    LET boundedLimit == Max(1, Min(MAX_READ_LIMIT, limit))
        entries == SelectSeq(file, LAMBDA e : e.runId = runId)
    IN LastOf(entries, boundedLimit)
readRecent(file, runId, limit) ==
    LET boundedLimit == Max(1, Min(MAX_READ_LIMIT, limit))
        entries == SelectSeq(file, LAMBDA e : JSONparse(e).ok /\ JSONparse(e).value.runId = runId)
    IN LastOf(entries, boundedLimit)
\* FileSharedContextStore.append
appendLine(file, entry) == Append(file, entry)

\* the line of the packet for an entry: what the entry is, who, which task
summarizeEntry(entry) ==
    [head |-> IF entry.type = "observation" THEN entry.status ELSE entry.type,
     agent |-> entry.agent,
     taskId |-> entry.taskId]

NoPacket == [runId |-> <<>>, taskId |-> 0, contextMode |-> "isolated", lines |-> <<>>]
buildSharedContextPacket(contextMode, envelope, recentEntries) ==
    IF contextMode = "isolated" THEN NoPacket
    ELSE [runId |-> envelope.runId,
          taskId |-> envelope.taskId,
          contextMode |-> contextMode,
          lines |-> [k \in 1..Len(recentEntries) |-> summarizeEntry(recentEntries[k])]]

VARIABLES
    lCfg,    \* the call: context mode, entry limit, chain length, run id
    lFile,   \* the lines of the ledger file of the run
    lChain   \* the chain: current step, task ids, the packet built for every step

ledgerVars == <<lCfg, lFile, lChain>>

LedgerModes == {"isolated", "shared-read", "shared-write"}
\* sharedContextLimit and PI_SUBAGENT_CONTEXT_LIMIT as given to the call
LedgerLimits ==
    {[param |-> NoParam, env |-> Unset],
     [param |-> NoParam, env |-> <<"4">>],
     [param |-> Param(1), env |-> <<"4">>],
     [param |-> Param(3), env |-> Unset],
     [param |-> Param(60), env |-> Unset]}
LedgerConfigs ==
    {[mode |-> m, limit |-> sharedContextLimit(l.param, l.env), n |-> n, nested |-> nested] :
        m \in LedgerModes, l \in LedgerLimits, n \in 1..MaxLedgerChain, nested \in BOOLEAN}

NoLedgerConfig == [mode |-> "isolated", limit |-> 1, n |-> 0, nested |-> FALSE]
NoChain ==
    [step |-> 0, phase |-> "idle", nextId |-> 1, childEntries |-> 0,
     taskIds |-> <<>>, packets |-> <<>>, readAt |-> <<>>]

\* a root call starts on an empty file; a nested call (same run id, same file)
\* finds the dispatch its parent wrote for it
LedgerInit ==
    /\ lCfg \in LedgerConfigs
    /\ lFile = IF lCfg.nested
               THEN <<DispatchEntry(FreshRunId, 0, AgentC.name, lCfg.mode)>>
               ELSE <<>>
    /\ lChain = [NoChain EXCEPT !.phase = "ready", !.step = 1]

LedgerIdle == lCfg = NoLedgerConfig /\ lFile = <<>> /\ lChain = NoChain

\* prepareDelegation of the current step: task id, dispatch entry, packet
LedgerDispatch ==
    /\ lChain.phase = "ready"
    /\ LET taskId == lChain.nextId
           envelope == [runId |-> FreshRunId, taskId |-> taskId, agent |-> PlanAgent(lChain.step)]
           file == Append(lFile, DispatchEntry(FreshRunId, taskId, envelope.agent, lCfg.mode))
           packet == buildSharedContextPacket(lCfg.mode, envelope,
                                              readRecent(file, FreshRunId, lCfg.limit))
       IN /\ lFile' = file
          /\ lChain' = [lChain EXCEPT !.phase = "running",
                                      !.nextId = @ + 1,
                                      !.taskIds = Append(@, taskId),
                                      !.packets = Append(@, packet),
                                      !.readAt = Append(@, Len(file))]
    /\ UNCHANGED lCfg

\* the running child delegates: its own orchestrator call appends a dispatch
\* to the file of the run
LedgerChildAppends ==
    /\ lChain.phase = "running"
    /\ lChain.childEntries < MaxChildEntries
    /\ lFile' = Append(lFile, DispatchEntry(FreshRunId, lChain.nextId, AgentS.name, lCfg.mode))
    /\ lChain' = [lChain EXCEPT !.nextId = @ + 1, !.childEntries = @ + 1]
    /\ UNCHANGED lCfg

\* the child of the current step ends: observation, then the next step, the
\* end of the chain (with the coordinator's decision in shared-write mode), or
\* the stop at a failed step
LedgerObserve(status) ==
    /\ lChain.phase = "running"
    /\ LET taskId == lChain.taskIds[lChain.step]
           file == Append(lFile, ObservationEntry(FreshRunId, taskId,
                                                  PlanAgent(lChain.step), status))
       IN IF status = "error"
          THEN /\ lFile' = file
               /\ lChain' = [lChain EXCEPT !.phase = "stopped"]
          ELSE IF lChain.step < lCfg.n
          THEN /\ lFile' = file
               /\ lChain' = [lChain EXCEPT !.phase = "ready", !.step = @ + 1]
          ELSE /\ lFile' = IF lCfg.mode = "shared-write"
                           THEN Append(file, DecisionEntry(FreshRunId, 0, <<"coordinator">>))
                           ELSE file
               /\ lChain' = [lChain EXCEPT !.phase = "done"]
    /\ UNCHANGED lCfg

(***************************************************************************)
(* StoreSpec: one FileSharedContextStore over its file.  The store appends *)
(* observations and reads the recent entries; the file may also hold lines *)
(* the store did not write: entries of another run and lines that are not  *)
(* JSON.                                                                   *)
(***************************************************************************)
\* own entries followed (more than the read cap), foreign lines and how far
\* into the file they occur
MaxStoreEntries == 101
MaxForeignLines == 2
ForeignWindow == 3
OtherRunId == <<"o">>
\* the limits readRecent is called with
ReadLimits == {0 - 2, 0, 1, 2, 100, 101, 150}

VARIABLES
    store    \* the store: the lines of its file and the last read
storeVars == <<store>>

NoRead == [limit |-> 0, entries |-> <<>>, done |-> FALSE]
StoreInit == store = [runId |-> FreshRunId, file |-> <<>>, nextTask |-> 1, read |-> NoRead]
StoreIdle == store = [runId |-> <<>>, file |-> <<>>, nextTask |-> 0, read |-> NoRead]

ForeignLines(file) == {k \in 1..Len(file) : ~JSONparse(file[k]).ok \/ file[k].runId # store.runId}

\* appendObservation
StoreAppend ==
    /\ store.nextTask <= MaxStoreEntries
    /\ store' = [store EXCEPT
                    !.file = appendLine(@, ObservationEntry(store.runId, store.nextTask,
                                                            AgentC.name, "success")),
                    !.nextTask = @ + 1,
                    !.read = NoRead]
\* a line of another writer reaches the file
StoreForeignLine(line) ==
    /\ Len(store.file) < ForeignWindow
    /\ Cardinality(ForeignLines(store.file)) < MaxForeignLines
    /\ store' = [store EXCEPT !.file = Append(@, line), !.read = NoRead]
\* readRecent(limit)
StoreRead(limit) ==
    /\ store' = [store EXCEPT !.read = [limit |-> limit,
                                        entries |-> readRecent(store.file, store.runId, limit),
                                        done |-> TRUE]]

(***************************************************************************)
(* PolicySpec: buildExecutionPlan of policy.ts, applied to one requested   *)
(* plan under a topology policy and a recommended mode.                    *)
(***************************************************************************)
\* longest requested plan
MaxPlanItems == 3
TopologyModes == {"single", "parallel", "chain"}
\* cwd?: string left out of an item
NoCwd == <<>>
PolicyCwds == {NoCwd, <<"p", "k", "g">>}
\* requested items: each task text with or without the placeholder, each
\* item with or without a cwd
PolicyItems(n) ==
    {[i \in 1..n |->
        [agent |-> PlanAgent(i),
         task |-> IF withPrevious[i] THEN PlanTask(i) \o <<"{previous}">> ELSE PlanTask(i),
         cwd |-> cwds[i]]] :
        withPrevious \in [1..n -> BOOLEAN], cwds \in [1..n -> PolicyCwds]}
\* the items of the requested mode: single holds one item or none
PolicyInputs ==
    UNION {{[requestedMode |-> m, policy |-> pol, recommendedMode |-> rec, items |-> items] :
                m \in IF n <= 1 THEN TopologyModes ELSE {"parallel", "chain"},
                pol \in {"advisory", "auto"},
                rec \in TopologyModes,
                items \in PolicyItems(n)} : n \in 0..MaxPlanItems}

\* variant of the copy that leaves the cwd out
CopyItem_NoCwd(item) == [agent |-> item.agent, task |-> item.task, cwd |-> NoCwd]
\* { ...item }
CopyItem(item) == [agent |-> item.agent, task |-> item.task, cwd |-> item.cwd]
CopyItems(items) == [i \in 1..Len(items) |-> CopyItem(items[i])]

normalizeRequestedPlan(mode, items) ==
    [mode |-> mode,
     items |-> IF mode = "single" THEN CopyItems(SubSeq(items, 1, Min(1, Len(items))))
               ELSE CopyItems(items)]

\* chain.some((item) => /\{previous\}/.test(item.task))
containsPrevious(chain) == \E k \in 1..Len(chain) : HasPlaceholder(chain[k].task)
\* variant that converts a chain of any length
chainConvertible_AnyLength(chain) == ~containsPrevious(chain)
chainConvertible(chain) == ~containsPrevious(chain) /\ Len(chain) > 1

buildExecutionPlan(input) ==
    LET normalized == normalizeRequestedPlan(input.requestedMode, input.items)
        Plan(mode, items, note) == [mode |-> mode, items |-> items, note |-> note]
        Kept(note) == Plan(normalized.mode, normalized.items, note)
        fallback == Kept("noSafeConversion")
    IN IF input.policy = "advisory" THEN Kept("advisoryKept")
       ELSE IF input.recommendedMode = "chain"
       THEN IF normalized.mode = "chain" THEN Kept("alreadyChain")
            ELSE IF normalized.mode = "parallel"
            THEN Plan("chain", CopyItems(normalized.items), "parallelToChain")
            ELSE Plan("chain", CopyItems(normalized.items), "singleToChain")
       ELSE IF input.recommendedMode = "parallel"
       THEN IF normalized.mode = "parallel" THEN Kept("alreadyParallel")
            ELSE IF normalized.mode = "chain" /\ chainConvertible(normalized.items)
            THEN Plan("parallel", CopyItems(normalized.items), "chainToParallel")
            ELSE fallback
       ELSE IF normalized.mode = "single" THEN Kept("alreadySingle")
            ELSE IF normalized.mode = "parallel" /\ Len(normalized.items) = 1
            THEN Plan("single", CopyItems(normalized.items), "parallelToSingle")
            ELSE IF /\ normalized.mode = "chain"
                    /\ Len(normalized.items) = 1
                    /\ ~HasPlaceholder(normalized.items[1].task)
            THEN Plan("single", CopyItems(normalized.items), "chainToSingle")
            ELSE fallback

VARIABLES
    planning    \* the input of buildExecutionPlan and the plan it returned
policyVars == <<planning>>

NoPlan == [mode |-> "none", items |-> <<>>, note |-> ""]
PolicyInit == \E input \in PolicyInputs : planning = [input |-> input, plan |-> NoPlan]
PolicyIdle ==
    planning = [input |-> [requestedMode |-> "single", policy |-> "advisory",
                           recommendedMode |-> "single", items |-> <<>>],
                plan |-> NoPlan]
BuildPlan ==
    /\ planning.plan = NoPlan
    /\ planning' = [planning EXCEPT !.plan = buildExecutionPlan(planning.input)]

(***************************************************************************)
(* IsolationSpec: decideExecutionIsolation of worktree.ts, applied to one  *)
(* requested isolation, one mode and the tasks of that mode.               *)
(***************************************************************************)
WRITE_TASK_KEYWORDS ==
    {<<"e", "d", "i", "t">>,
     <<"m", "o", "d", "i", "f", "y">>,
     <<"u", "p", "d", "a", "t", "e">>,
     <<"i", "m", "p", "l", "e", "m", "e", "n", "t">>,
     <<"w", "r", "i", "t", "e">>,
     <<"c", "r", "e", "a", "t", "e">>,
     <<"r", "e", "f", "a", "c", "t", "o", "r">>,
     <<"f", "i", "x">>,
     <<"d", "e", "l", "e", "t", "e">>,
     <<"a", "d", "d">>,
     <<"r", "e", "m", "o", "v", "e">>,
     <<"p", "a", "t", "c", "h">>,
     <<"r", "e", "n", "a", "m", "e">>,
     <<"r", "e", "p", "l", "a", "c", "e">>,
     <<"m", "i", "g", "r", "a", "t", "e">>,
     <<"a", "p", "p", "l", "y">>}
READ_ONLY_TASK_KEYWORDS ==
    {<<"l", "i", "s", "t">>,
     <<"f", "i", "n", "d">>,
     <<"s", "e", "a", "r", "c", "h">>,
     <<"i", "n", "s", "p", "e", "c", "t">>,
     <<"r", "e", "a", "d">>,
     <<"a", "n", "a", "l", "y", "z", "e">>,
     <<"s", "u", "m", "m", "a", "r", "i", "z", "e">>,
     <<"e", "x", "p", "l", "a", "i", "n">>,
     <<"l", "o", "c", "a", "t", "e">>,
     <<"s", "h", "o", "w">>,
     <<"i", "d", "e", "n", "t", "i", "f", "y">>,
     <<"s", "c", "a", "n">>,
     <<"r", "e", "p", "o", "r", "t">>}
DIRECT_WRITE_TOOLS == {"write", "edit", "bash"}
\* most tasks in one decision
MaxIsolationTasks == 2

\* String.prototype.includes
Includes(text, keyword) ==
    \E i \in 0..(Len(text) - Len(keyword)) : SubSeq(text, i + 1, i + Len(keyword)) = keyword

\* task texts: with a read-only keyword, with a write keyword, with a write
\* keyword inside another word, with both, with neither
IsolationTexts ==
    {<<"L", "i", "s", "t">>,
     <<"f", "i", "n", "d">>,
     <<"F", "I", "X">>,
     <<"p", "r", "e", "f", "i", "x">>,
     <<"f", "i", "n", "d", " ", "f", "i", "x">>,
     <<"r", "u", "n">>}
\* agentTools of a task: undefined, or the tools of the agent
IsolationTools == {NoTools, <<"read">>}
IsolationTaskInputs(n) ==
    [1..n -> [task : IsolationTexts, agentTools : IsolationTools]]
\* execute() fills the field of the mode only (worktree.ts 1538-1564)
IsolationInputs ==
    UNION {{[requestedIsolation |-> iso, mode |-> m,
             single |-> IF m = "single" THEN items ELSE <<>>,
             tasks |-> IF m = "parallel" THEN items ELSE <<>>,
             chain |-> IF m = "chain" THEN items ELSE <<>>] :
                iso \in {"auto", "shared", "worktree"},
                m \in IF n <= 1 THEN {"single", "parallel", "chain"}
                                 ELSE {"parallel", "chain"},
                items \in IsolationTaskInputs(n)} :
           n \in 0..MaxIsolationTasks}

extractIsolationTasks(input) ==
    IF input.mode = "parallel" THEN input.tasks
    ELSE IF input.mode = "chain" THEN input.chain
    ELSE input.single

hasKeyword(task, keywords) == \E keyword \in keywords : Includes(ToLower(task), keyword)
isWriteIntent(task) == hasKeyword(task, WRITE_TASK_KEYWORDS)
isLikelyReadOnlyIntent(task) ==
    hasKeyword(task, READ_ONLY_TASK_KEYWORDS) /\ ~hasKeyword(task, WRITE_TASK_KEYWORDS)
isWriteCapable(agentTools) ==
    \/ agentTools = NoTools
    \/ \E k \in 1..Len(agentTools) : agentTools[k] \in DIRECT_WRITE_TOOLS

\* variant that is content with one read-only task
hasReadOnlyIntent_Some(tasks) == \E k \in 1..Len(tasks) : isLikelyReadOnlyIntent(tasks[k].task)
\* tasks.length > 0 && tasks.every((task) => isLikelyReadOnlyIntent(task.task))
hasReadOnlyIntent(tasks) ==
    Len(tasks) > 0 /\ \A k \in 1..Len(tasks) : isLikelyReadOnlyIntent(tasks[k].task)

decideExecutionIsolation(input) ==
    LET tasks == extractIsolationTasks(input)
        hasWriteIntent == \E k \in 1..Len(tasks) : isWriteIntent(tasks[k].task)
        hasWriteCapableAgents == \E k \in 1..Len(tasks) : isWriteCapable(tasks[k].agentTools)
        Decision(selected, reason) ==
            [requestedIsolation |-> input.requestedIsolation,
             selectedIsolation |-> selected, reason |-> reason]
    IN IF input.requestedIsolation = "shared" THEN Decision("shared", "explicitShared")
       ELSE IF input.requestedIsolation = "worktree" THEN Decision("worktree", "explicitWorktree")
       ELSE IF input.mode = "parallel"
       THEN IF Len(tasks) <= 1 THEN Decision("shared", "parallelOneTask")
            ELSE IF hasReadOnlyIntent(tasks) /\ ~hasWriteIntent
            THEN Decision("shared", "parallelReadOnly")
            ELSE Decision("worktree", "parallelWrites")
       ELSE IF input.mode = "chain"
       THEN IF hasWriteIntent \/ hasWriteCapableAgents THEN Decision("worktree", "chainWrites")
            ELSE Decision("shared", "chainReadOnly")
       ELSE IF hasWriteIntent /\ hasWriteCapableAgents THEN Decision("worktree", "singleWrite")
       ELSE Decision("shared", "singleDefault")

VARIABLES
    deciding    \* the input of decideExecutionIsolation and the decision it returned
isolationVars == <<deciding>>

NoDecision == [requestedIsolation |-> "auto", selectedIsolation |-> "none", reason |-> ""]
IsolationInit == \E input \in IsolationInputs : deciding = [input |-> input, decision |-> NoDecision]
IsolationIdle ==
    deciding = [input |-> [requestedIsolation |-> "auto", mode |-> "single",
                           single |-> <<>>, tasks |-> <<>>, chain |-> <<>>],
                decision |-> NoDecision]
DecideIsolation ==
    /\ deciding.decision = NoDecision
    /\ deciding' = [deciding EXCEPT !.decision = decideExecutionIsolation(deciding.input)]

(***************************************************************************)
(* TopologySpec: the topology decision of execute: buildTopologyDecision   *)
(* on the request, then buildExecutionPlan with the recommended mode.      *)
(***************************************************************************)
RISK_KEYWORDS ==
    {<<"m", "i", "g", "r", "a", "t", "i", "o", "n">>,
     <<"d", "a", "t", "a", "b", "a", "s", "e">>,
     <<"s", "c", "h", "e", "m", "a">>,
     <<"a", "u", "t", "h">>,
     <<"s", "e", "c", "u", "r", "i", "t", "y">>,
     <<"p", "a", "y", "m", "e", "n", "t">>,
     <<"d", "e", "l", "e", "t", "e">>,
     <<"p", "r", "o", "d", "u", "c", "t", "i", "o", "n">>,
     <<"i", "n", "f", "r", "a">>,
     <<"r", "e", "f", "a", "c", "t", "o", "r">>}
\* most items in the chain and in the tasks of one request
MaxTopologyItems == 2
\* length of the long task text
LongTaskLength == 700

\* task texts: a short one, one with three risk keywords of which one is
\* capitalised, and a long one
TopologyTexts ==
    {<<"a", "1">>,
     <<"A", "u", "t", "h", " ", "s", "c", "h", "e", "m", "a", " ",
       "m", "i", "g", "r", "a", "t", "i", "o", "n">>,
     [i \in 1..LongTaskLength |-> "x"]}
TopologyItems(n) ==
    {[i \in 1..n |-> [agent |-> PlanAgent(i), task |-> texts[i], cwd |-> NoCwd]] :
        texts \in [1..n -> TopologyTexts]}
TopologyItemLists == UNION {TopologyItems(n) : n \in 0..MaxTopologyItems}
\* the parameters of a call: params.chain, params.tasks, params.agent with
\* params.task, and the topology policy
TopologyParams ==
    [chain : TopologyItemLists,
     tasks : TopologyItemLists,
     single : TopologyItems(0) \cup TopologyItems(1),
     policy : {"advisory", "auto"}]

clamp(value, min, max) == Max(min, Min(max, value))

extractTaskTexts(input) ==
    IF input.requestedMode = "chain" THEN [i \in 1..Len(input.chain) |-> input.chain[i].task]
    ELSE IF input.requestedMode = "parallel"
    THEN [i \in 1..Len(input.tasks) |-> input.tasks[i].task]
    ELSE [i \in 1..Len(input.single) |-> input.single[i].task]

RECURSIVE TotalLength(_)
TotalLength(texts) ==
    IF texts = <<>> THEN 0 ELSE Len(Head(texts)) + TotalLength(Tail(texts))

\* Math.round of a non-negative quotient: halves go up
RoundQuotient(num, den) == (2 * num + den) \div (2 * den)

\* RISK_KEYWORDS.filter((keyword) => lower.includes(keyword)).length
taskHits(task) ==
    LET lower == SubSeq(ToLower(task), 1, Len(task))
    IN Cardinality({k \in RISK_KEYWORDS : Includes(lower, k)})
RECURSIVE keywordHits(_)
keywordHits(texts) ==
    IF texts = <<>> THEN 0 ELSE taskHits(Head(texts)) + keywordHits(Tail(texts))

\* variant that gives a chain the coupling of a batch
couplingScore_ChainAsParallel(mode) ==
    IF mode = "single" THEN 2 ELSE 4
couplingScore(mode) ==
    IF mode = "chain" THEN 8 ELSE IF mode = "parallel" THEN 4 ELSE 2

selectRecommendedMode(input) ==
    IF input.complexityScore >= 7 \/ input.riskScore >= 7 \/ input.couplingScore >= 7
    THEN "chain"
    ELSE IF input.estimatedAgentCount >= 2 /\ input.couplingScore <= 5 THEN "parallel"
    ELSE "single"

buildTopologyDecision(input) ==
    LET taskTexts == extractTaskTexts(input)
        n == Len(taskTexts)
        estimatedAgentCount == Max(1, n)
        total == TotalLength(taskTexts)
        \* Math.round(estimatedAgentCount + avgTaskLength / 120 + (chain ? 1 : 0))
        complexityScore ==
            clamp(estimatedAgentCount
                    + (IF n > 0 THEN RoundQuotient(total, 120 * n) ELSE 0)
                    + (IF input.requestedMode = "chain" THEN 1 ELSE 0), 1, 10)
        hits == keywordHits(taskTexts)
        riskScore == clamp(IF hits = 0 THEN 1 ELSE 1 + hits * 2, 1, 10)
        coupling == couplingScore(input.requestedMode)
        confidencePenalty == (IF n > 0 /\ total > 300 * n THEN 2 ELSE 0)
                               + (IF riskScore >= 7 THEN 2 ELSE 0)
                               + (IF estimatedAgentCount > 4 THEN 1 ELSE 0)
        recommendedMode == selectRecommendedMode(
                               [estimatedAgentCount |-> estimatedAgentCount,
                                complexityScore |-> complexityScore,
                                riskScore |-> riskScore,
                                couplingScore |-> coupling])
    IN [requestedMode |-> input.requestedMode,
        recommendedMode |-> recommendedMode,
        selectedMode |-> input.requestedMode,
        policy |-> "advisory",
        estimatedAgentCount |-> estimatedAgentCount,
        complexityScore |-> complexityScore,
        riskScore |-> riskScore,
        couplingScore |-> coupling,
        confidenceScore |-> clamp(8 - confidencePenalty, 1, 10),
        aligned |-> recommendedMode = input.requestedMode]

\* hasChain, hasTasks, hasSingle
providedModes(params) ==
    {m \in {"chain"} : Len(params.chain) > 0}
        \cup {m \in {"parallel"} : Len(params.tasks) > 0}
        \cup {m \in {"single"} : Len(params.single) > 0}
requestedModeOf(params) == requestedMode(providedModes(params))
modeCount(params) == Cardinality(providedModes(params))

VARIABLES
    topology    \* the parameters of the call, its topology decision and its plan
topologyVars == <<topology>>

NoTopologyDecision ==
    [requestedMode |-> "none", recommendedMode |-> "none", selectedMode |-> "none",
     policy |-> "none", estimatedAgentCount |-> 0, complexityScore |-> 0, riskScore |-> 0,
     couplingScore |-> 0, confidenceScore |-> 0, aligned |-> FALSE]
TopologyInit ==
    \E params \in TopologyParams :
        topology = [pc |-> "entry", params |-> params, decision |-> NoTopologyDecision,
                    plan |-> NoPlan]
TopologyIdle ==
    topology = [pc |-> "entry",
                params |-> [chain |-> <<>>, tasks |-> <<>>, single |-> <<>>,
                            policy |-> "advisory"],
                decision |-> NoTopologyDecision, plan |-> NoPlan]

\* the decision is built from the request and given the policy of the call
DecideTopology ==
    /\ topology.pc = "entry"
    /\ topology' = [topology EXCEPT
                       !.pc = "decided",
                       !.decision = [buildTopologyDecision(
                                         [requestedMode |-> requestedModeOf(topology.params),
                                          chain |-> topology.params.chain,
                                          tasks |-> topology.params.tasks,
                                          single |-> topology.params.single])
                                        EXCEPT !.policy = topology.params.policy]]
\* a request with no mode or with several returns with the decision as built
RejectModes ==
    /\ topology.pc = "decided"
    /\ modeCount(topology.params) # 1
    /\ topology' = [topology EXCEPT !.pc = "invalid"]
\* the plan is built and its mode becomes the selected mode
SelectTopology ==
    /\ topology.pc = "decided"
    /\ modeCount(topology.params) = 1
    /\ LET mode == requestedModeOf(topology.params)
           plan == buildExecutionPlan(
                       [requestedMode |-> mode,
                        policy |-> topology.params.policy,
                        recommendedMode |-> topology.decision.recommendedMode,
                        items |-> IF mode = "chain" THEN topology.params.chain
                                  ELSE IF mode = "parallel" THEN topology.params.tasks
                                  ELSE topology.params.single])
       IN topology' = [topology EXCEPT !.pc = "planned",
                                       !.plan = plan,
                                       !.decision.selectedMode = plan.mode]

(***************************************************************************)
(* MonitorSpec: one CoordinatorMonitor (coordinator-monitor.ts) shared by   *)
(* the calls of a session.  Runs are started, updated and finished by       *)
(* their calls, the clock advances, and the status line asks for the        *)
(* summary.  finishedAtMs = 0 stands for undefined: the code tests it with  *)
(* !run.finishedAtMs.                                                       *)
(***************************************************************************)
COMPLETION_STATUS_WINDOW_MS == 5000
\* defaults of cleanup(maxFinishedAgeMs, maxRuns) and formatStatusSummary(maxCoordinators)
MaxFinishedAgeMs == 120000
MaxRuns == 12
MaxCoordinators == 3

\* runs started one by one in a behaviour, updates of agents, phases and
\* counters, and steps of the clock
MaxMonitorRuns == 3
MaxMonitorOps == 2
MaxMonitorTicks == 2
\* finished runs of the earlier part of a session
EarlierFinishedRuns == 8
\* Date.now() when the behaviour starts
MonitorStartMs == 1000

\* arguments of the calls
MonitorAgentCounts == {2}
MonitorPhases == {"running"}
MonitorIndexes == {0, 1}
MonitorStatuses == {"running", "done"}
MonitorRunningCounts == {0 - 1, 3}

NewMonitor == [nextId |-> 1, runs |-> <<>>]

CoordinatorMonitor_startRun(m, n) ==
    [nextId |-> m.nextId + 1,
     runs |-> Append(m.runs,
                     [id |-> m.nextId, phase |-> "starting", agentsTotal |-> n,
                      parallelRunning |-> 0, finishedAtMs |-> 0,
                      agents |-> [i \in 1..n |-> "pending"]])]

\* this.runs.find((run) => run.id === id): its position, 0 when there is none
getRun(m, id) ==
    IF \E k \in 1..Len(m.runs) : m.runs[k].id = id
    THEN CHOOSE k \in 1..Len(m.runs) : m.runs[k].id = id
    ELSE 0

CoordinatorMonitor_setPhase(m, id, phase) ==
    IF getRun(m, id) = 0 THEN m
    ELSE [m EXCEPT !.runs[getRun(m, id)].phase = phase]

CoordinatorMonitor_setParallelRunning(m, id, running) ==
    IF getRun(m, id) = 0 THEN m
    ELSE [m EXCEPT !.runs[getRun(m, id)].parallelRunning = Max(0, running)]

\* markAgentRunning / markAgentDone / markAgentError; index counts from 0
CoordinatorMonitor_markAgent(m, id, index, status) ==
    IF getRun(m, id) = 0 THEN m
    ELSE IF index + 1 \notin 1..Len(m.runs[getRun(m, id)].agents) THEN m
    ELSE [m EXCEPT !.runs[getRun(m, id)].agents[index + 1] = status]

CoordinatorMonitor_finishRun(m, id, success, nowMs) ==
    IF getRun(m, id) = 0 THEN m
    ELSE [m EXCEPT !.runs[getRun(m, id)] =
              [@ EXCEPT !.phase = IF success THEN "done" ELSE "error",
                        !.finishedAtMs = nowMs,
                        !.parallelRunning = 0]]

\* runs.slice(-count)
LastRuns(runs, count) == SubSeq(runs, Max(1, Len(runs) - count + 1), Len(runs))

cleanup(m, nowMs) ==
    LET aged == SelectSeq(m.runs, LAMBDA r : r.finishedAtMs = 0 \/ nowMs - r.finishedAtMs <= MaxFinishedAgeMs)
    IN [m EXCEPT !.runs = IF Len(aged) > MaxRuns THEN LastRuns(aged, MaxRuns) ELSE aged]

\* Array.prototype.sort((a, b) => a.id - b.id)
RECURSIVE SortById(_)
SortById(runs) ==
    IF runs = <<>> THEN <<>>
    ELSE LET least == CHOOSE k \in 1..Len(runs) :
                          \A j \in 1..Len(runs) :
                              runs[k].id < runs[j].id \/ (runs[k].id = runs[j].id /\ k <= j)
         IN <<runs[least]>> \o SortById(SubSeq(runs, 1, least - 1) \o SubSeq(runs, least + 1, Len(runs)))

formatRunToken(r) ==
    LET text == <<"c">> \o IntToStr(r.id) \o <<":", "a">> \o IntToStr(r.agentsTotal)
        runningAgents == Cardinality({k \in 1..Len(r.agents) : r.agents[k] = "running"})
        parallelRunning == Max(r.parallelRunning, runningAgents)
    IN IF parallelRunning > 0 THEN text \o <<":", "p">> \o IntToStr(parallelRunning) ELSE text

formatCompletedRunToken(r) ==
    <<"c">> \o IntToStr(r.id) \o (IF r.phase = "error" THEN <<":", "e", "r", "r">>
                                  ELSE <<":", "d", "o", "n", "e">>)

\* tokens.join(" | ")
RECURSIVE JoinTokens(_)
JoinTokens(tokens) ==
    IF tokens = <<>> THEN <<>>
    ELSE IF Len(tokens) = 1 THEN tokens[1]
    ELSE tokens[1] \o <<" ", "|", " ">> \o JoinTokens(Tail(tokens))

Undefined == [defined |-> FALSE, text |-> <<>>]
Text(t) == [defined |-> TRUE, text |-> t]

\* the monitor after the call and the value returned
formatStatusSummary(m, nowMs) ==
    LET cleaned == cleanup(m, nowMs)
        max == Max(1, MaxCoordinators)
        active == SelectSeq(cleaned.runs, LAMBDA r : r.phase # "done" /\ r.phase # "error")
        recentlyFinished ==
            SelectSeq(cleaned.runs,
                      LAMBDA r : /\ r.phase \in {"done", "error"}
                                 /\ r.finishedAtMs # 0
                                 /\ nowMs - r.finishedAtMs <= COMPLETION_STATUS_WINDOW_MS)
        Tokens(runs, Token(_)) ==
            LET selected == SortById(LastRuns(runs, max))
            IN JoinTokens([k \in 1..Len(selected) |-> Token(selected[k])])
    IN [monitor |-> cleaned,
        value |-> IF cleaned.runs = <<>> THEN Undefined
                  ELSE IF Len(active) > 0 THEN Text(Tokens(active, formatRunToken))
                  ELSE IF Len(recentlyFinished) = 0 THEN Undefined
                  ELSE Text(Tokens(recentlyFinished, formatCompletedRunToken))]

\* the earlier part of a session: count calls that started one after the
\* other and have finished
RECURSIVE EarlierCalls(_, _, _)
EarlierCalls(m, count, nowMs) ==
    IF count = 0 THEN m
    ELSE EarlierCalls(CoordinatorMonitor_finishRun(CoordinatorMonitor_startRun(m, 1),
                                                   m.nextId, TRUE, nowMs),
                      count - 1, nowMs)
\* two calls that are still running
LongCalls(m) ==
    CoordinatorMonitor_setPhase(
        CoordinatorMonitor_startRun(
            CoordinatorMonitor_setPhase(CoordinatorMonitor_startRun(m, 1), m.nextId, "running"), 1),
        m.nextId + 1, "running")

VARIABLES
    monitor,    \* the CoordinatorMonitor: nextId and runs
    mClock,     \* Date.now(), and the calls and clock steps made so far
    summary     \* the value of the last formatStatusSummary, until the next call
monitorVars == <<monitor, mClock, summary>>

NotAsked == [defined |-> FALSE, text |-> <<"-">>]
MonitorInit ==
    /\ monitor = NewMonitor
    /\ mClock = [now |-> MonitorStartMs, started |-> 0, ops |-> 0, ticks |-> 0]
    /\ summary = NotAsked
MonitorIdle ==
    /\ monitor = NewMonitor
    /\ mClock = [now |-> 0, started |-> 0, ops |-> 0, ticks |-> 0]
    /\ summary = NotAsked

Unfinished(m) == {m.runs[k].id : k \in {j \in 1..Len(m.runs) : m.runs[j].phase \notin {"done", "error"}}}

MonitorEarlierCalls ==
    /\ monitor = NewMonitor
    /\ monitor' = EarlierCalls(LongCalls(monitor), EarlierFinishedRuns, mClock.now)
    /\ summary' = NotAsked
    /\ UNCHANGED mClock

MonitorStartRun(n) ==
    /\ mClock.started < MaxMonitorRuns
    /\ monitor' = CoordinatorMonitor_startRun(monitor, n)
    /\ mClock' = [mClock EXCEPT !.started = @ + 1]
    /\ summary' = NotAsked

MonitorSetPhase(id, phase) ==
    /\ mClock.ops < MaxMonitorOps
    /\ id \in Unfinished(monitor)
    /\ monitor' = CoordinatorMonitor_setPhase(monitor, id, phase)
    /\ mClock' = [mClock EXCEPT !.ops = @ + 1]
    /\ summary' = NotAsked

MonitorMarkAgent(id, index, status) ==
    /\ mClock.ops < MaxMonitorOps
    /\ id \in Unfinished(monitor)
    /\ monitor' = CoordinatorMonitor_markAgent(monitor, id, index, status)
    /\ mClock' = [mClock EXCEPT !.ops = @ + 1]
    /\ summary' = NotAsked

MonitorSetParallelRunning(id, running) ==
    /\ mClock.ops < MaxMonitorOps
    /\ id \in Unfinished(monitor)
    /\ monitor' = CoordinatorMonitor_setParallelRunning(monitor, id, running)
    /\ mClock' = [mClock EXCEPT !.ops = @ + 1]
    /\ summary' = NotAsked

MonitorFinishRun(id, success) ==
    /\ id \in Unfinished(monitor)
    /\ monitor' = CoordinatorMonitor_finishRun(monitor, id, success, mClock.now)
    /\ summary' = NotAsked
    /\ UNCHANGED mClock

MonitorTick(ms) ==
    /\ mClock.ticks < MaxMonitorTicks
    /\ mClock' = [mClock EXCEPT !.now = @ + ms, !.ticks = @ + 1]
    /\ summary' = NotAsked
    /\ UNCHANGED monitor

MonitorFormat ==
    /\ summary = NotAsked
    /\ monitor' = formatStatusSummary(monitor, mClock.now).monitor
    /\ summary' = formatStatusSummary(monitor, mClock.now).value
    /\ UNCHANGED mClock

(***************************************************************************)
(* LaneSpec: one worktree lane from its creation to its integration.  The  *)
(* child works in the lane as a git user does: it writes, creates and      *)
(* deletes files, stages them and commits; after it has exited with 0 the  *)
(* lane is integrated into the repository root and removed.                *)
(***************************************************************************)
\* the files followed and what a file holds: nothing (the file does not
\* exist), its text at base_head, a changed text, or a merge left in conflict
LaneFiles == {"note.txt", "extra.txt"}
Absent == 0
BaseText == 1
NewText == 2
Conflicted == 3
\* the commit at the head of the repository when the lane is created
BaseHead == [f \in LaneFiles |-> IF f = "note.txt" THEN BaseText ELSE Absent]

VARIABLES
    lane,       \* the lane: branch head, index, working tree, progress, report
    repoRoot    \* the working tree of the repository root
laneVars == <<lane, repoRoot>>

\* git worktree add -b <branch> <path> HEAD
NewLane ==
    [head |-> BaseHead, index |-> BaseHead, work |-> BaseHead,
     phase |-> "child", report |-> "none", branch |-> TRUE,
     path |-> TRUE, locked |-> FALSE, warnings |-> 0]
NoLane == [NewLane EXCEPT !.phase = "none", !.branch = FALSE, !.path = FALSE]

LaneInit == lane = NewLane /\ repoRoot = BaseHead
LaneIdle == lane = NoLane /\ repoRoot = BaseHead

\* variant: the difference between the lane's working tree and base_head
gitDiff_AgainstBase(l) ==
    [f \in {x \in LaneFiles : l.work[x] # BaseHead[x]} |->
        [pre |-> BaseHead[f], post |-> l.work[f]]]
\* git diff --binary in the lane: the files of the index whose working-tree
\* text differs from the staged one, with both texts
gitDiff(l) ==
    [f \in {x \in LaneFiles : l.index[x] # Absent /\ l.work[x] # l.index[x]} |->
        [pre |-> l.index[f], post |-> l.work[f]]]

\* git apply --3way of a patch in the root: a file that holds the patch's
\* pre-image (or already its post-image) takes the post-image, any other file
\* is left in conflict and the command fails
Applies(root, patch, f) == root[f] = patch[f].pre \/ root[f] = patch[f].post
gitApply3way(root, patch) ==
    [ok |-> \A f \in DOMAIN patch : Applies(root, patch, f),
     root |-> [f \in LaneFiles |->
                  IF f \notin DOMAIN patch THEN root[f]
                  ELSE IF Applies(root, patch, f) THEN patch[f].post
                  ELSE Conflicted]]

\* integrateWorktreeAssignments for one assignment
integrateAssignment(l, root, diffOk) ==
    LET patch == gitDiff(l)
        applyResult == gitApply3way(root, patch)
    IN IF ~diffOk THEN [report |-> "failed", root |-> root]
       ELSE IF DOMAIN patch = {} THEN [report |-> "skipped", root |-> root]
       ELSE IF ~applyResult.ok THEN [report |-> "failed", root |-> applyResult.root]
       ELSE [report |-> "applied", root |-> applyResult.root]

\* the child writes, creates or deletes a file in its lane
ChildWrites(f, text) ==
    /\ lane.phase = "child"
    /\ lane.work[f] # text
    /\ lane' = [lane EXCEPT !.work[f] = text]
    /\ UNCHANGED repoRoot
\* git add <file>
ChildStages(f) ==
    /\ lane.phase = "child"
    /\ lane.index[f] # lane.work[f]
    /\ lane' = [lane EXCEPT !.index[f] = lane.work[f]]
    /\ UNCHANGED repoRoot
\* git commit
ChildCommits ==
    /\ lane.phase = "child"
    /\ lane.head # lane.index
    /\ lane' = [lane EXCEPT !.head = lane.index]
    /\ UNCHANGED repoRoot
\* the child exits with 0
ChildExits ==
    /\ lane.phase = "child"
    /\ lane' = [lane EXCEPT !.phase = "exited"]
    /\ UNCHANGED repoRoot
LaneIntegrate ==
    /\ lane.phase = "exited"
    /\ \E diffOk \in BOOLEAN :
          LET result == integrateAssignment(lane, repoRoot, diffOk)
          IN /\ lane' = [lane EXCEPT !.phase = "integrated", !.report = result.report]
             /\ repoRoot' = result.root
\* git worktree lock, run by the child in its lane
ChildLocks ==
    /\ lane.phase = "child"
    /\ ~lane.locked
    /\ lane' = [lane EXCEPT !.locked = TRUE]
    /\ UNCHANGED repoRoot
\* git worktree remove --force <path>: refused for a locked worktree, which
\* then stays registered with its branch checked out
gitWorktreeRemove(l) ==
    IF l.locked
    THEN [ok |-> FALSE, lane |-> l]
    ELSE [ok |-> TRUE, lane |-> [l EXCEPT !.path = FALSE]]
\* git branch -D <branch>: refused while a registered worktree has the
\* branch checked out, whether or not its directory still exists
gitBranchDelete(l) ==
    IF l.locked
    THEN [ok |-> FALSE, lane |-> l]
    ELSE [ok |-> TRUE, lane |-> [l EXCEPT !.branch = FALSE]]
\* cleanupWorktreeSession, for one assignment: the worktree is removed, its
\* path is deleted if it is still there, and the branch is deleted if its
\* head is still base_head; every failure leaves a warning
cleanupLane(l, rmOk) ==
    LET removed == gitWorktreeRemove(l)
        swept == IF removed.lane.path /\ rmOk
                 THEN [removed.lane EXCEPT !.path = FALSE]
                 ELSE removed.lane
        deleted == IF swept.head # BaseHead
                   THEN [ok |-> TRUE, lane |-> swept]
                   ELSE gitBranchDelete(swept)
    IN [deleted.lane EXCEPT !.phase = "removed",
                            !.warnings = (IF removed.ok THEN 0 ELSE 1)
                                         + (IF swept.path THEN 1 ELSE 0)
                                         + (IF deleted.ok THEN 0 ELSE 1)]
LaneCleanup ==
    /\ lane.phase = "integrated"
    /\ \E rmOk \in BOOLEAN :
          lane' = cleanupLane(lane, rmOk)
    /\ UNCHANGED repoRoot

(***************************************************************************)
(* The specifications.  Each one runs its own part of the state and leaves *)
(* the variables of the other parts at their idle values.                  *)
(***************************************************************************)
vars == <<reserveVars, guardVars, execVars, ledgerVars, laneVars, storeVars, policyVars, isolationVars, monitorVars, topologyVars>>

ReserveSpecInit == ReserveInit /\ GuardIdle /\ ExecIdle /\ LedgerIdle /\ LaneIdle /\ StoreIdle /\ PolicyIdle /\ IsolationIdle /\ MonitorIdle /\ TopologyIdle
ReserveSpecNext == ReserveNext /\ UNCHANGED <<guardVars, execVars, ledgerVars, laneVars, storeVars, policyVars, isolationVars, monitorVars, topologyVars>>
ReserveSpec == ReserveSpecInit /\ [][ReserveSpecNext]_vars

GuardSpecInit == GuardInit /\ ReserveIdle /\ ExecIdle /\ LedgerIdle /\ LaneIdle /\ StoreIdle /\ PolicyIdle /\ IsolationIdle /\ MonitorIdle /\ TopologyIdle
GuardSpecNext ==
    \/ (\E p \in 1..Len(gProcs) : ExecuteEntry(p)) /\ UNCHANGED <<reserveVars, execVars, ledgerVars, laneVars, storeVars, policyVars, isolationVars, monitorVars, topologyVars>>
    \/ (\E p \in 1..Len(gProcs), agent \in GuardAgents, task \in GuardTasks :
            \E r \in ReservedChoices(gProcs[p].budget) : GuardReserve(p, agent, task, r))
          /\ UNCHANGED <<reserveVars, execVars, ledgerVars, laneVars, storeVars, policyVars, isolationVars, monitorVars, topologyVars>>
    \/ (\E p \in 1..Len(gProcs), agent \in GuardAgents, task \in GuardTasks :
            \E r \in ReservedChoices(gProcs[p].budget) : GuardReserveFails(p, agent, task, r))
          /\ UNCHANGED <<reserveVars, execVars, ledgerVars, laneVars, storeVars, policyVars, isolationVars, monitorVars, topologyVars>>
    \/ (\E p \in 1..Len(gProcs) : GuardReturn(p)) /\ UNCHANGED <<reserveVars, execVars, ledgerVars, laneVars, storeVars, policyVars, isolationVars, monitorVars, topologyVars>>
GuardSpec == GuardSpecInit /\ [][GuardSpecNext]_vars

Init == ExecInit /\ ReserveIdle /\ GuardIdle /\ LedgerIdle /\ LaneIdle /\ StoreIdle /\ PolicyIdle /\ IsolationIdle /\ MonitorIdle /\ TopologyIdle
Next ==
    \/ Execute /\ UNCHANGED <<reserveVars, guardVars, ledgerVars, laneVars, storeVars, policyVars, isolationVars, monitorVars, topologyVars>>
    \/ ChainStart /\ UNCHANGED <<reserveVars, guardVars, ledgerVars, laneVars, storeVars, policyVars, isolationVars, monitorVars, topologyVars>>
    \/ ChainStep /\ UNCHANGED <<reserveVars, guardVars, ledgerVars, laneVars, storeVars, policyVars, isolationVars, monitorVars, topologyVars>>
    \/ ParallelStart /\ UNCHANGED <<reserveVars, guardVars, ledgerVars, laneVars, storeVars, policyVars, isolationVars, monitorVars, topologyVars>>
    \/ ParallelReserve /\ UNCHANGED <<reserveVars, guardVars, ledgerVars, laneVars, storeVars, policyVars, isolationVars, monitorVars, topologyVars>>
    \/ ParallelLaunch /\ UNCHANGED <<reserveVars, guardVars, ledgerVars, laneVars, storeVars, policyVars, isolationVars, monitorVars, topologyVars>>
    \/ SingleRun /\ UNCHANGED <<reserveVars, guardVars, ledgerVars, laneVars, storeVars, policyVars, isolationVars, monitorVars, topologyVars>>
    \/ ChildCloses /\ UNCHANGED <<reserveVars, guardVars, ledgerVars, laneVars, storeVars, policyVars, isolationVars, monitorVars, topologyVars>>
    \/ Integrate /\ UNCHANGED <<reserveVars, guardVars, ledgerVars, laneVars, storeVars, policyVars, isolationVars, monitorVars, topologyVars>>
    \/ SmokeGate /\ UNCHANGED <<reserveVars, guardVars, ledgerVars, laneVars, storeVars, policyVars, isolationVars, monitorVars, topologyVars>>
    \/ FixAttempt /\ UNCHANGED <<reserveVars, guardVars, ledgerVars, laneVars, storeVars, policyVars, isolationVars, monitorVars, topologyVars>>
    \/ Tick /\ UNCHANGED <<reserveVars, guardVars, ledgerVars, laneVars, storeVars, policyVars, isolationVars, monitorVars, topologyVars>>
    \/ Abort /\ UNCHANGED <<reserveVars, guardVars, ledgerVars, laneVars, storeVars, policyVars, isolationVars, monitorVars, topologyVars>>
Spec == Init /\ [][Next]_vars

LedgerSpecInit == LedgerInit /\ ReserveIdle /\ GuardIdle /\ ExecIdle /\ LaneIdle /\ StoreIdle /\ PolicyIdle /\ IsolationIdle /\ MonitorIdle /\ TopologyIdle
LedgerSpecNext ==
    \/ LedgerDispatch /\ UNCHANGED <<reserveVars, guardVars, execVars, laneVars, storeVars, policyVars, isolationVars, monitorVars, topologyVars>>
    \/ LedgerChildAppends /\ UNCHANGED <<reserveVars, guardVars, execVars, laneVars, storeVars, policyVars, isolationVars, monitorVars, topologyVars>>
    \/ (\E status \in {"success", "error"} : LedgerObserve(status))
          /\ UNCHANGED <<reserveVars, guardVars, execVars, laneVars, storeVars, policyVars, isolationVars, monitorVars, topologyVars>>
LedgerSpec == LedgerSpecInit /\ [][LedgerSpecNext]_vars

LaneSpecInit == LaneInit /\ ReserveIdle /\ GuardIdle /\ ExecIdle /\ LedgerIdle /\ StoreIdle /\ PolicyIdle /\ IsolationIdle /\ MonitorIdle /\ TopologyIdle
LaneSpecNext ==
    \/ (\E f \in LaneFiles, text \in {Absent, BaseText, NewText} : ChildWrites(f, text))
          /\ UNCHANGED <<reserveVars, guardVars, execVars, ledgerVars, storeVars, policyVars, isolationVars, monitorVars, topologyVars>>
    \/ (\E f \in LaneFiles : ChildStages(f))
          /\ UNCHANGED <<reserveVars, guardVars, execVars, ledgerVars, storeVars, policyVars, isolationVars, monitorVars, topologyVars>>
    \/ ChildCommits /\ UNCHANGED <<reserveVars, guardVars, execVars, ledgerVars, storeVars, policyVars, isolationVars, monitorVars, topologyVars>>
    \/ ChildExits /\ UNCHANGED <<reserveVars, guardVars, execVars, ledgerVars, storeVars, policyVars, isolationVars, monitorVars, topologyVars>>
    \/ LaneIntegrate /\ UNCHANGED <<reserveVars, guardVars, execVars, ledgerVars, storeVars, policyVars, isolationVars, monitorVars, topologyVars>>
    \/ ChildLocks /\ UNCHANGED <<reserveVars, guardVars, execVars, ledgerVars, storeVars, policyVars, isolationVars, monitorVars, topologyVars>>
    \/ LaneCleanup /\ UNCHANGED <<reserveVars, guardVars, execVars, ledgerVars, storeVars, policyVars, isolationVars, monitorVars, topologyVars>>
LaneSpec == LaneSpecInit /\ [][LaneSpecNext]_vars

StoreSpecInit == StoreInit /\ ReserveIdle /\ GuardIdle /\ ExecIdle /\ LedgerIdle /\ LaneIdle /\ PolicyIdle /\ IsolationIdle /\ MonitorIdle /\ TopologyIdle
StoreSpecNext ==
    \/ StoreAppend /\ UNCHANGED <<reserveVars, guardVars, execVars, ledgerVars, laneVars, policyVars, isolationVars, monitorVars, topologyVars>>
    \/ (\E line \in {MalformedLine(store.runId),
                      ObservationEntry(OtherRunId, 1, AgentC.name, "success")} :
            StoreForeignLine(line))
          /\ UNCHANGED <<reserveVars, guardVars, execVars, ledgerVars, laneVars, policyVars, isolationVars, monitorVars, topologyVars>>
    \/ (\E limit \in ReadLimits : StoreRead(limit))
          /\ UNCHANGED <<reserveVars, guardVars, execVars, ledgerVars, laneVars, policyVars, isolationVars, monitorVars, topologyVars>>
StoreSpec == StoreSpecInit /\ [][StoreSpecNext]_vars

PolicySpecInit ==
    PolicyInit /\ ReserveIdle /\ GuardIdle /\ ExecIdle /\ LedgerIdle /\ LaneIdle /\ StoreIdle /\ IsolationIdle /\ MonitorIdle /\ TopologyIdle
PolicySpecNext ==
    BuildPlan /\ UNCHANGED <<reserveVars, guardVars, execVars, ledgerVars, laneVars, storeVars, isolationVars, monitorVars, topologyVars>>
PolicySpec == PolicySpecInit /\ [][PolicySpecNext]_vars

IsolationSpecInit ==
    IsolationInit /\ ReserveIdle /\ GuardIdle /\ ExecIdle /\ LedgerIdle /\ LaneIdle /\ StoreIdle /\ PolicyIdle /\ MonitorIdle /\ TopologyIdle
IsolationSpecNext ==
    DecideIsolation /\ UNCHANGED <<reserveVars, guardVars, execVars, ledgerVars, laneVars, storeVars, policyVars, monitorVars, topologyVars>>
IsolationSpec == IsolationSpecInit /\ [][IsolationSpecNext]_vars

\* the calls of the orchestrator on the monitor, at one moment of the clock
MonitorSpecInit ==
    MonitorInit /\ ReserveIdle /\ GuardIdle /\ ExecIdle /\ LedgerIdle /\ LaneIdle /\ StoreIdle /\ PolicyIdle /\ IsolationIdle /\ TopologyIdle
MonitorSpecNext ==
    \/ MonitorEarlierCalls /\ UNCHANGED <<reserveVars, guardVars, execVars, ledgerVars, laneVars, storeVars, policyVars, isolationVars, topologyVars>>
    \/ (\E n \in MonitorAgentCounts : MonitorStartRun(n)) /\ UNCHANGED <<reserveVars, guardVars, execVars, ledgerVars, laneVars, storeVars, policyVars, isolationVars, topologyVars>>
    \/ (\E id \in Unfinished(monitor), phase \in MonitorPhases : MonitorSetPhase(id, phase))
          /\ UNCHANGED <<reserveVars, guardVars, execVars, ledgerVars, laneVars, storeVars, policyVars, isolationVars, topologyVars>>
    \/ (\E id \in Unfinished(monitor), index \in MonitorIndexes, status \in MonitorStatuses :
            MonitorMarkAgent(id, index, status))
          /\ UNCHANGED <<reserveVars, guardVars, execVars, ledgerVars, laneVars, storeVars, policyVars, isolationVars, topologyVars>>
    \/ (\E id \in Unfinished(monitor), running \in MonitorRunningCounts :
            MonitorSetParallelRunning(id, running))
          /\ UNCHANGED <<reserveVars, guardVars, execVars, ledgerVars, laneVars, storeVars, policyVars, isolationVars, topologyVars>>
    \/ (\E id \in Unfinished(monitor), success \in BOOLEAN : MonitorFinishRun(id, success))
          /\ UNCHANGED <<reserveVars, guardVars, execVars, ledgerVars, laneVars, storeVars, policyVars, isolationVars, topologyVars>>
    \/ MonitorFormat /\ UNCHANGED <<reserveVars, guardVars, execVars, ledgerVars, laneVars, storeVars, policyVars, isolationVars, topologyVars>>
MonitorSpec == MonitorSpecInit /\ [][MonitorSpecNext]_vars

\* runs that start and finish while the clock advances
MonitorClockSpecInit ==
    MonitorInit /\ ReserveIdle /\ GuardIdle /\ ExecIdle /\ LedgerIdle /\ LaneIdle /\ StoreIdle /\ PolicyIdle /\ IsolationIdle /\ TopologyIdle
MonitorClockSpecNext ==
    \/ MonitorEarlierCalls /\ UNCHANGED <<reserveVars, guardVars, execVars, ledgerVars, laneVars, storeVars, policyVars, isolationVars, topologyVars>>
    \/ (\E n \in MonitorAgentCounts : MonitorStartRun(n)) /\ UNCHANGED <<reserveVars, guardVars, execVars, ledgerVars, laneVars, storeVars, policyVars, isolationVars, topologyVars>>
    \/ (\E id \in Unfinished(monitor), success \in BOOLEAN : MonitorFinishRun(id, success))
          /\ UNCHANGED <<reserveVars, guardVars, execVars, ledgerVars, laneVars, storeVars, policyVars, isolationVars, topologyVars>>
    \/ (\E ms \in {1, COMPLETION_STATUS_WINDOW_MS} : MonitorTick(ms)) /\ UNCHANGED <<reserveVars, guardVars, execVars, ledgerVars, laneVars, storeVars, policyVars, isolationVars, topologyVars>>
    \/ MonitorFormat /\ UNCHANGED <<reserveVars, guardVars, execVars, ledgerVars, laneVars, storeVars, policyVars, isolationVars, topologyVars>>
MonitorClockSpec == MonitorClockSpecInit /\ [][MonitorClockSpecNext]_vars

TopologySpecInit ==
    TopologyInit /\ ReserveIdle /\ GuardIdle /\ ExecIdle /\ LedgerIdle /\ LaneIdle /\ StoreIdle /\ PolicyIdle /\ IsolationIdle /\ MonitorIdle
TopologySpecNext ==
    \/ DecideTopology /\ UNCHANGED <<reserveVars, guardVars, execVars, ledgerVars, laneVars, storeVars, policyVars, isolationVars, monitorVars>>
    \/ RejectModes /\ UNCHANGED <<reserveVars, guardVars, execVars, ledgerVars, laneVars, storeVars, policyVars, isolationVars, monitorVars>>
    \/ SelectTopology /\ UNCHANGED <<reserveVars, guardVars, execVars, ledgerVars, laneVars, storeVars, policyVars, isolationVars, monitorVars>>
TopologySpec == TopologySpecInit /\ [][TopologySpecNext]_vars

(***************************************************************************)
(* Properties of the guardrail budget.                                     *)
(***************************************************************************)
\* tokens held for a reservation: by the budget of the process launched for
\* it, or still by the child budget when no process was launched
TokensHeldFor(e) ==
    IF \E q \in 1..Len(gProcs) : gProcs[q].via = e.id
    THEN gProcs[CHOOSE q \in 1..Len(gProcs) : gProcs[q].via = e.id].budget.remainingTokens
    ELSE e.child.remainingTokens

RECURSIVE TokensHeld(_)
TokensHeld(S) ==
    IF S = {} THEN 0
    ELSE LET e == CHOOSE y \in S : TRUE IN TokensHeldFor(e) + TokensHeld(S \ {e})

\* C1: the remaining tokens of all budgets of the run's process tree plus the
\* number of children reserved so far equal the root's initial token count.
C1_TokenConservation ==
    gProcs # <<>> =>
        gProcs[1].budget.remainingTokens + TokensHeld(gLog) + Cardinality(gLog)
            = DEFAULT_MAX_TOTAL_AGENTS

\* C2: within one run no two successful reservations share a fingerprint.
C2_UniqueFingerprints ==
    \A e1 \in gLog, e2 \in gLog : e1.id.fp = e2.id.fp => e1 = e2

\* the words of a text, lower-cased: two texts with the same words are equal
\* up to case, surrounding whitespace and whitespace runs
RECURSIVE Words(_, _)
Words(s, cur) ==
    IF s = <<>> THEN (IF cur = <<>> THEN <<>> ELSE <<cur>>)
    ELSE IF IsWs(Head(s))
         THEN (IF cur = <<>> THEN <<>> ELSE <<cur>>) \o Words(Tail(s), <<>>)
         ELSE Words(Tail(s), Append(cur, ToLowerChar(Head(s))))

SamePair(agent1, task1, agent2, task2) ==
    /\ Words(agent1, <<>>) = Words(agent2, <<>>)
    /\ Words(task1, <<>>) = Words(task2, <<>>)

\* the pairs reserved successfully before the last call
ReservedBeforeLast == rDone
LastIsRepeat ==
    \E pair \in ReservedBeforeLast : SamePair(pair[1], pair[2], rLast.agent, rLast.task)

\* C3: a call whose (agent, task) pair equals an earlier successful pair up to
\* case, surrounding whitespace and whitespace runs fails with the loop error
\* and leaves remaining_tokens and the fingerprint set unchanged; no child
\* budget comes out of it.
C3_LoopDetected ==
    (rLast.res.error # "never" /\ LastIsRepeat) =>
        /\ rLast.res.error = "loop"
        /\ rBudget.remainingTokens = rLast.before.remainingTokens
        /\ rBudget.fingerprints = rLast.before.fingerprints
        /\ rLast.res.child = NoChild

\* a loop error for a pair written differently from the earlier one
C3_Witness ==
    /\ rLast.res.error = "loop"
    /\ <<rLast.agent, rLast.task>> \notin ReservedBeforeLast
    /\ \E pair \in ReservedBeforeLast :
          /\ SamePair(pair[1], pair[2], rLast.agent, rLast.task)
          /\ pair[1] # rLast.agent
          /\ pair[2] # rLast.task

\* C4: for a new fingerprint the call fails with the budget error, budget
\* unchanged, when remaining_tokens < 1 + r; otherwise it deducts exactly
\* 1 + r, adds the fingerprint and returns a child budget with
\* remaining_tokens = r, next_depth = depth + 1, can_spawn_children = allow
\* and the parent's run_id, max_depth and deadline.
C4_ReservationResult ==
    (rLast.res.error # "never" /\ ~LastIsRepeat) =>
        IF rLast.before.remainingTokens < 1 + rLast.r
        THEN /\ rLast.res.error = "budget"
             /\ rBudget = rLast.before
        ELSE /\ rLast.res.error = "none"
             /\ rBudget.remainingTokens = rLast.before.remainingTokens - (1 + rLast.r)
             /\ Len(rBudget.fingerprints) = Len(rLast.before.fingerprints) + 1
             /\ SubSeq(rBudget.fingerprints, 1, Len(rLast.before.fingerprints))
                   = rLast.before.fingerprints
             /\ Words(rBudget.fingerprints[Len(rBudget.fingerprints)], <<>>)
                   = << Words(rLast.agent, <<>>)[1] \o <<":", ":">> \o Words(rLast.task, <<>>)[1] >>
                        \o Tail(Words(rLast.task, <<>>))
             /\ [rBudget EXCEPT !.remainingTokens = 0, !.fingerprints = <<>>]
                   = [rLast.before EXCEPT !.remainingTokens = 0, !.fingerprints = <<>>]
             /\ rLast.res.child.remainingTokens = rLast.r
             /\ rLast.res.child.nextDepth = rLast.before.depth + 1
             /\ rLast.res.child.canSpawnChildren = rLast.allow
             /\ rLast.res.child.runId = rLast.before.runId
             /\ rLast.res.child.maxDepth = rLast.before.maxDepth
             /\ rLast.res.child.deadlineAtMs = rLast.before.deadlineAtMs

\* a budget error after an earlier reservation that handed tokens to a child
C4_Witness ==
    /\ rLast.res.error = "budget"
    /\ ~LastIsRepeat
    /\ ReservedBeforeLast # {}
    /\ rLast.before.remainingTokens > 0
    /\ rLast.before.remainingTokens < DEFAULT_MAX_TOTAL_AGENTS

\* a tool list that names the delegation tool
NamesSubagent(tools) == tools # NoTools /\ "subagent" \in {tools[i] : i \in 1..Len(tools)}

\* the processes launched for a reservation made for an agent that may not nest
Leaves ==
    {q \in 1..Len(gProcs) :
        \E e \in gLog : gProcs[q].via = e.id /\ ~NamesSubagent(e.tools)}

\* C6: a child reserved for an agent whose tool list does not name "subagent"
\* receives can_spawn_children = false, and every orchestrator call made
\* inside such a child is refused at entry: it reserves nothing and spawns
\* nothing.
C6_NestingGate ==
    /\ \A e \in gLog : ~NamesSubagent(e.tools) => ~e.child.canSpawnChildren
    /\ \A q \in Leaves :
          /\ ~gProcs[q].active
          /\ gProcs[q].gate \in {"none", "nested"}
          /\ \A e \in gLog : e.id.proc # q
          /\ \A c \in 1..Len(gProcs) : gProcs[c].parent # q

\* a leaf child that called the orchestrator, for both kinds of non-nesting
\* agent: no tool list at all, and a tool list without "subagent"
C6_Witness ==
    /\ \E q \in Leaves : gProcs[q].calls > 0 /\ gProcs[q].gate = "nested"
                         /\ \E e \in gLog : gProcs[q].via = e.id /\ e.tools = NoTools
    /\ \E q \in Leaves : gProcs[q].calls > 0
                         /\ \E e \in gLog : gProcs[q].via = e.id /\ e.tools # NoTools

(***************************************************************************)
(* Properties of one orchestrator call.                                    *)
(***************************************************************************)
PlanSize == Len(call.plan.items)
\* the tasks for which a child budget was reserved, and those that were handed
\* to runSingleAgent
HasReservation(t) == t.child # NoChild
WasLaunched(t) == t.state \in {"running", "done", "thrown"}

\* C5: every process of a run carries the same absolute deadline_at_ms (the
\* orchestrator reads it from its environment, every child budget repeats it,
\* and a running child reads it back from the environment written for it), and no
\* child process (planned task, chain step, queued parallel task or smoke-fix
\* agent) is spawned at a time now > deadline_at_ms.
C5_DeadlineState ==
    /\ (run.pc # "entry" /\ call.env # EmptyEnv) =>
           IntToStr(run.budget.deadlineAtMs) = call.env.deadlineAt
    /\ \A i \in 1..Len(run.tasks) :
          LET t == run.tasks[i]
          IN /\ HasReservation(t) => t.child.deadlineAtMs = run.budget.deadlineAtMs
             /\ (t.spawned /\ t.state = "running") =>
                   initializeExecutionBudget(ChildEnv(t.child), now).deadlineAtMs
                       = run.budget.deadlineAtMs
             /\ t.spawned => t.spawnedAt <= run.budget.deadlineAtMs
C5_SharedDeadline == [](C5_DeadlineState)

\* a parallel batch in which a queued task found the deadline reached and was
\* not spawned, after earlier tasks of the batch had been spawned
C5_Witness ==
    /\ call.plan.mode = "parallel"
    /\ \E i \in 1..PlanSize : run.tasks[i].spawned
    /\ \E i \in 1..PlanSize :
          /\ i > MAX_CONCURRENCY
          /\ run.tasks[i].state = "done"
          /\ ~run.tasks[i].spawned
          /\ now >= run.tasks[i].child.deadlineAtMs

EntryRefused(budget, nowMs) ==
    \/ budget.depth >= budget.maxDepth
    \/ budget.remainingTokens <= 0
    \/ nowMs > budget.deadlineAtMs
    \/ (budget.depth > 0 /\ ~budget.canSpawnChildren)

NothingStarted(s) ==
    /\ s.coordinator = NoCoordinator
    /\ ~s.coordinatorFinished
    /\ s.worktreeSession = "none"
    /\ ~s.storeCreated
    /\ s.ledger = {}
    /\ \A i \in 1..Len(s.tasks) :
          /\ s.tasks[i].state = "pending"
          /\ ~s.tasks[i].spawned
          /\ ~HasReservation(s.tasks[i])

EntryRefusalTexts == {"nested", "depth", "deadline", "exhausted"}

\* C7: a call whose budget has depth >= max_depth, or remaining_tokens <= 0, or
\* now > deadline, or (depth > 0 and can_spawn_children false) returns an error
\* result without starting a coordinator run, creating a worktree session,
\* writing to the ledger, reserving budget or spawning a child; every spawned
\* child has depth <= max_depth.
C7_EntryRefusal ==
    /\ [][(/\ run.pc = "entry"
           /\ Cardinality(call.modes) = 1
           /\ validatePhaseGateState(run.phaseGateState) = "ok"
           /\ EntryRefused(initializeExecutionBudget(call.env, now), now))
          => (/\ run'.pc = "returned"
              /\ run'.ret.kind = "result"
              /\ run'.ret.text \in EntryRefusalTexts
              /\ run'.budget = initializeExecutionBudget(call.env, now)
              /\ NothingStarted(run'))]_vars
    /\ []((/\ run.pc = "returned"
            /\ Cardinality(call.modes) = 1
            /\ validatePhaseGateState(run.phaseGateState) = "ok"
            /\ run.coordinator.runs = 0)
           => (/\ NothingStarted(run)
               /\ run.ret.text \in EntryRefusalTexts
               /\ EntryRefused(run.budget, now)))
    /\ [](\A i \in 1..Len(run.tasks) :
             run.tasks[i].spawned => run.tasks[i].child.nextDepth <= run.budget.maxDepth)

\* a call made at the depth limit by a process that may nest, refused
C7_Witness ==
    /\ run.pc = "returned"
    /\ run.ret.text = "depth"
    /\ run.budget.depth >= run.budget.maxDepth
    /\ run.budget.canSpawnChildren
    /\ run.budget.remainingTokens > 0
    /\ now <= run.budget.deadlineAtMs

\* C8: in a parallel batch of n tasks at most min(4, n) child executions are in
\* flight at any moment, and a further task is started only after one of the
\* running ones has completed.
C8_ConcurrencyCap ==
    call.plan.mode = "parallel" =>
        LET limit == Min(MAX_CONCURRENCY, PlanSize)
            started == {i \in 1..PlanSize : WasLaunched(run.tasks[i])}
            completed == {i \in 1..PlanSize : run.tasks[i].state \in {"done", "thrown"}}
        IN /\ Cardinality(InFlight(run)) <= limit
           /\ Cardinality(started) <= limit + Cardinality(completed)
           /\ \A i \in started : i > limit => Cardinality(completed \ {i}) >= i - limit

\* a batch larger than the cap: a queued task runs in the place of a completed
\* one, and the cap is reached again
C8_Witness ==
    /\ call.plan.mode = "parallel"
    /\ PlanSize > MAX_CONCURRENCY
    /\ Cardinality(InFlight(run)) = MAX_CONCURRENCY
    /\ \E i \in InFlight(run) : i > MAX_CONCURRENCY
    /\ \E i \in 1..PlanSize : run.tasks[i].state = "done" /\ run.tasks[i].spawned

ReservationFailureTexts == {"loop", "budget", "unknownAgent"}

\* C9: parallel mode refuses when the number of tasks exceeds 8 or
\* remaining_tokens is below the number of tasks; the n reservations are made
\* in declaration order before any child is launched, and when a reservation
\* fails (loop, budget, unknown agent) no child of the batch is spawned.
C9_ReserveBeforeLaunch ==
    call.plan.mode = "parallel" =>
        /\ (/\ run.pc \notin {"entry", "parallel"}
            /\ \/ PlanSize > MAX_PARALLEL_TASKS
               \/ initializeExecutionBudget(call.env, now).remainingTokens < PlanSize)
           => (/\ run.pc = "returned"
               /\ run.ret.kind = "result"
               /\ run.ret.text \in EntryRefusalTexts \cup {"tooMany", "parallelInsufficient"}
               /\ \A i \in 1..PlanSize :
                     run.tasks[i].state = "pending" /\ ~HasReservation(run.tasks[i]))
        /\ \A i \in 1..PlanSize, j \in 1..PlanSize :
              (i < j /\ run.tasks[j].state # "pending") => HasReservation(run.tasks[i])
        /\ (\E i \in 1..PlanSize : WasLaunched(run.tasks[i]) \/ run.tasks[i].spawned)
              => \A i \in 1..PlanSize : HasReservation(run.tasks[i])
        /\ (run.pc = "returned" /\ run.ret.text \in ReservationFailureTexts)
              => (/\ \E i \in 1..PlanSize : ~HasReservation(run.tasks[i])
                  /\ \A i \in 1..PlanSize :
                        ~run.tasks[i].spawned /\ ~WasLaunched(run.tasks[i]))

\* a batch whose second task repeats the first: the first reservation was
\* made, the second failed with the loop error, the third was never tried
C9_Witness ==
    /\ call.plan.mode = "parallel"
    /\ run.pc = "returned"
    /\ run.ret.text = "loop"
    /\ HasReservation(run.tasks[1])
    /\ run.tasks[2].state = "dispatched"
    /\ PlanSize > 2
    /\ run.tasks[PlanSize].state = "pending"

AllReserved == \A i \in 1..PlanSize : HasReservation(run.tasks[i])
BatchCompleted ==
    /\ call.plan.mode = "parallel"
    /\ AllReserved
    /\ run.pc \notin {"reserve", "launch", "pool"}

\* C11: in a parallel batch whose reservations all succeeded and that is not
\* cancelled, no task is handed to runSingleAgent more than once; the result
\* of task i is recorded under index i (coordinator status and ledger
\* observation agree with the result kept at i); and the batch is left only
\* when every task has been launched once and has its result, whether tasks
\* failed or not.
C11_ParallelContinues ==
    (call.plan.mode = "parallel" /\ AllReserved /\ ~signalAborted) =>
        /\ \A i \in 1..PlanSize :
              LET t == run.tasks[i]
              IN /\ t.launches <= 1
                 /\ t.state = "done" =>
                       /\ t.launches = 1
                       /\ run.coordinator.agents[i] = (IF IsError(t) THEN "error" ELSE "done")
                       /\ [type |-> "observation", task |-> i,
                            status |-> IF IsError(t) THEN "error" ELSE "success"]
                              \in run.ledger
                       /\ [type |-> "observation", task |-> i,
                            status |-> IF IsError(t) THEN "success" ELSE "error"]
                              \notin run.ledger
        /\ BatchCompleted =>
              \A i \in 1..PlanSize : run.tasks[i].state = "done" /\ run.tasks[i].launches = 1

\* a batch larger than the cap that completed although its first task failed:
\* a task queued behind it ran and succeeded
C11_Witness ==
    /\ BatchCompleted
    /\ ~signalAborted
    /\ PlanSize > MAX_CONCURRENCY
    /\ IsError(run.tasks[1])
    /\ \E i \in 1..PlanSize :
          i > MAX_CONCURRENCY /\ run.tasks[i].spawned /\ ~IsError(run.tasks[i])

\* the tokens the call starts with
InitialTokens == initializeExecutionBudget(call.env, 0).remainingTokens

\* C12: a chain of n steps called with fewer than n remaining tokens reserves
\* nothing, writes no dispatch and launches no child; once the chain branch
\* is entered the call returns the insufficient-budget error with the budget
\* as it was.
C12_ChainBudgetPrecheck ==
    (call.plan.mode = "chain" /\ InitialTokens < PlanSize) =>
        /\ \A i \in 1..Len(run.tasks) :
              /\ ~HasReservation(run.tasks[i])
              /\ run.tasks[i].launches = 0
              /\ ~run.tasks[i].spawned
        /\ run.ledger = {}
        /\ run.pc \in {"entry", "chain", "returned"}
        /\ (run.pc = "returned" /\ run.coordinator.runs = 1) =>
              /\ run.ret = createBudgetError("chainInsufficient")
              /\ run.budget.remainingTokens = InitialTokens

\* a chain longer than the tokens its process was handed, refused in the
\* chain branch
C12_Witness ==
    /\ call.plan.mode = "chain"
    /\ InitialTokens > 0
    /\ InitialTokens < PlanSize
    /\ run.pc = "returned"
    /\ run.coordinator.runs = 1
    /\ run.ret.text = "chainInsufficient"

\* the text with every placeholder replaced by the output as it is
RECURSIVE LiteralReplace(_, _)
LiteralReplace(task, output) ==
    IF task = <<>> THEN <<>>
    ELSE (IF Head(task) = "{previous}" THEN output ELSE <<Head(task)>>)
            \o LiteralReplace(Tail(task), output)

Delegated(t) == t.state # "pending"

\* C13: in a chain the task delegated at step i is the planned text with every
\* {previous} replaced by the final output of step i-1 (the empty text at the
\* first step), and step i is delegated only after step i-1 has completed
\* successfully.
C13_PreviousSubstitution ==
    call.plan.mode = "chain" =>
        \A i \in 1..PlanSize :
            Delegated(run.tasks[i]) =>
                /\ i > 1 => (run.tasks[i - 1].state = "done" /\ ~IsError(run.tasks[i - 1]))
                /\ run.tasks[i].task =
                       LiteralReplace(call.plan.items[i].task,
                                      IF i = 1 THEN <<>> ELSE run.tasks[i - 1].output)

\* C13, the order of the steps alone: a step is delegated only after the step
\* before it has completed successfully.
C13_StepOrder ==
    call.plan.mode = "chain" =>
        \A i \in 2..PlanSize :
            Delegated(run.tasks[i]) =>
                (run.tasks[i - 1].state = "done" /\ ~IsError(run.tasks[i - 1]))

(***************************************************************************)
(* Properties of the shared-context store.                                 *)
(***************************************************************************)
\* the entries of the run that the steps before step k wrote, as packet lines
PriorLines(k) ==
    LET prior == {lChain.taskIds[j] : j \in 1..(k - 1)}
        entries == SelectSeq(lFile, LAMBDA e : e.taskId \in prior /\ e.type # "decision")
    IN [x \in 1..Len(entries) |-> summarizeEntry(entries[x])]
\* the lines of the packet of step k that stem from the steps before it
PriorLinesIn(k) ==
    LET prior == {lChain.taskIds[j] : j \in 1..(k - 1)}
    IN SelectSeq(lChain.packets[k].lines, LAMBDA line : line.taskId \in prior)
\* the file as it was when step k read it, as packet lines
LinesAt(k) ==
    LET file == SubSeq(lFile, 1, lChain.readAt[k])
    IN [x \in 1..Len(file) |-> summarizeEntry(file[x])]

PlannedSucceeded ==
    \A i \in 1..PlanSize : run.tasks[i].state = "done" /\ ~IsError(run.tasks[i])
FixTasks == {i \in 1..Len(run.tasks) : run.tasks[i].kind = "fix"}

\* C15 as stated: when all planned children succeeded, the smoke gate is
\* required with a command and fix attempts allowed, and the smoke run failed
\* after its retries, the first turn of the fix loop reserves budget for a
\* fix child and spawns it (the call is not cancelled and within its deadline).
C15_FixLoopReachable ==
    (/\ PlannedSucceeded
     /\ run.phaseGateState.requireSmoke
     /\ run.phaseGateState.smokeCommands > 0
     /\ run.phaseGateState.smokeMaxFixAttempts > 0
     /\ getFixAgent(call) # NoAgent
     /\ ~signalAborted
     /\ now <= run.budget.deadlineAtMs
     /\ run.phaseGateState.smokeFailed
     /\ run.local.fixAttempt >= 1
     /\ run.pc # "fix")
    => \E i \in FixTasks :
          /\ HasReservation(run.tasks[i])
          /\ run.tasks[i].launches = 1
          /\ run.tasks[i].spawned

\* C16: once the call has returned with smoke commands configured, it failed
\* with the smoke gate's error exactly if the gate is required and the most
\* recent smoke run had a failing command; when the gate is not required a
\* failing smoke run leaves a warning in a result that is no error, and no fix
\* agent was prepared, recorded or run.
C16_SmokeGateVerdict ==
    (run.pc = "returned" /\ run.phaseGateState.smokeCommands > 0) =>
        /\ run.ret = ErrorResult("smokeFailed", 0)
              <=> (run.phaseGateState.requireSmoke /\ run.phaseGateState.smokeFailed)
        /\ (~run.phaseGateState.requireSmoke /\ run.phaseGateState.smokeFailed) =>
              /\ run.ret.kind = "result"
              /\ ~run.ret.isError
              /\ run.ret.text = "okSmokeWarning"
              /\ FixTasks = {}
              /\ run.phaseGateState.smokeFixHistory = <<>>
              /\ run.phaseGateState.smokeFixAttempts = 0

\* a required gate fails the call after the smoke run failed and the fix loop
\* gave up
C16_Witness ==
    /\ run.pc = "returned"
    /\ run.phaseGateState.smokeCommands > 0
    /\ run.phaseGateState.requireSmoke
    /\ run.phaseGateState.smokeFailed
    /\ run.phaseGateState.smokeFixHistory # <<>>
    /\ run.ret = ErrorResult("smokeFailed", 0)
\* a gate that is not required turns the failing smoke run into a warning
SmokeWarningGiven ==
    /\ run.pc = "returned"
    /\ ~run.phaseGateState.requireSmoke
    /\ run.phaseGateState.smokeFailed
    /\ run.ret.text = "okSmokeWarning"

\* C17: the fix counter never exceeds smokeMaxFixAttempts and the run counter
\* never exceeds (1 + smokeMaxFixAttempts) * (1 + smokeMaxRetries); a retry
\* sequence makes between 1 and 1 + smokeMaxRetries runs, ends before the last
\* permitted run only on a pass, and the run counter is at least the runs of
\* the last sequence (1 + the retries it used); every sequence adds its runs,
\* one by one, to the run counter.
C17_CountersState ==
    LET g == run.phaseGateState
    IN /\ g.smokeFixAttempts <= g.smokeMaxFixAttempts
       /\ g.smokeAttempts <= (1 + g.smokeMaxFixAttempts) * (1 + g.smokeMaxRetries)
       /\ run.local.smokeRuns \in 0..(1 + g.smokeMaxRetries)
       /\ (g.smokeAttempts > 0) <=> (run.local.smokeRuns >= 1)
       /\ g.smokeAttempts >= run.local.smokeRuns
       /\ (run.local.smokeRuns \in 1..g.smokeMaxRetries) => ~g.smokeFailed
       /\ (run.pc = "returned" /\ g.smokeStatus \in {"passed", "failed"}) =>
              g.smokeAttempts >= 1 + (run.local.smokeRuns - 1)
C17_CountersStep ==
    run'.phaseGateState.smokeAttempts # run.phaseGateState.smokeAttempts =>
        run'.phaseGateState.smokeAttempts =
            run.phaseGateState.smokeAttempts + run'.local.smokeRuns
C17_SmokeCountersBounded == [](C17_CountersState) /\ [][C17_CountersStep]_vars

\* a sequence under two retries that stopped at its second run, which passed
C17_Witness ==
    /\ run.pc = "returned"
    /\ run.phaseGateState.smokeMaxRetries = 2
    /\ run.local.smokeRuns = 2
    /\ run.phaseGateState.smokeAttempts = 2
    /\ run.phaseGateState.smokeStatus = "passed"

(***************************************************************************)
(* Properties of worktree integration.                                     *)
(***************************************************************************)
FailedLanes == {k \in 1..Len(run.lanes) : run.lanes[k].report = "failed"}
AppliedLanes == {k \in 1..Len(run.lanes) : run.lanes[k].report = "applied"}

\* C18 as stated: in a parallel call with worktree isolation the patch of a
\* lane is applied to the repository root only if the lane's task succeeded:
\* exit code 0 and a stop reason that is neither error (which a timeout sets)
\* nor aborted.
C18_OnlySuccessfulLanes ==
    call.plan.mode = "parallel" =>
        \A k \in AppliedLanes : ~IsError(run.tasks[run.lanes[k].task])

\* C20: once a lane handed to integration is reported failed, the call has
\* returned the integration error, no smoke command was run, the coordinator
\* run is finished once as error, the lanes reported applied have their
\* patches in the repository root, and every lane of the session has been
\* through cleanup; no step ever takes an applied patch out of the root.
C20_FailureState ==
    FailedLanes # {} =>
        /\ run.pc = "returned"
        /\ run.ret = ErrorResult("integrationFailed", 0)
        /\ run.phaseGateState.smokeAttempts = 0
        /\ run.phaseGateState.smokeStatus \in {"pending", "skipped"}
        /\ run.coordinatorFinished
        /\ run.coordinator.phase = "error"
        /\ run.coordinator.finishCalls = 1
        /\ \A k \in AppliedLanes : run.lanes[k].task \in run.applied
        /\ run.worktreeSession = "cleaned"
        /\ \A k \in 1..Len(run.lanes) : run.lanes[k].removed
C20_NoRollback == run.applied \subseteq run'.applied
C19_LaneIntegrationComplete ==
    lane.phase \in {"integrated", "removed"} =>
        /\ lane.report = "skipped" => lane.work = BaseHead
        /\ lane.report = "applied" =>
              \A f \in LaneFiles : lane.work[f] # BaseHead[f] => repoRoot[f] = lane.work[f]

\* C23: after the cleanup the lane's worktree path does not exist, and its
\* branch is gone unless its head differs from base_head.
C23_CleanupPostcondition ==
    lane.phase = "removed" =>
        /\ ~lane.path
        /\ lane.branch => lane.head # BaseHead
\* what the cleanup does leave: a path or an unchanged branch only with a
\* warning, and a branch with commits always
C23_CleanupOrWarning ==
    lane.phase = "removed" =>
        /\ (lane.path \/ (lane.branch /\ lane.head = BaseHead)) => lane.warnings > 0
        /\ lane.head # BaseHead => lane.branch
C23_StaleBranch ==
    /\ lane.phase = "removed"
    /\ ~lane.path
    /\ lane.branch
    /\ lane.head = BaseHead

\* C25 as stated: in a call with the isolated context mode no entry is
\* written to the ledger and every child's task goes without a handoff packet.
C25_IsolatedState ==
    lCfg.mode = "isolated" =>
        \A k \in 1..Len(lChain.packets) : lChain.packets[k] = NoPacket
C25_IsolatedStep == lCfg.mode = "isolated" => lFile' = lFile
C25_IsolatedContext == [](C25_IsolatedState) /\ [][C25_IsolatedStep]_vars
\* an isolated chain that has completed with its dispatches and observations
\* in the file
C25_IsolatedEntries ==
    /\ lCfg.mode = "isolated"
    /\ ~lCfg.nested
    /\ lChain.phase = "done"
    /\ Len(lFile) >= 2 * lCfg.n

(***************************************************************************)
(* Properties of the execution plan.                                       *)
(***************************************************************************)
\* C30: under the policy auto with parallel recommended, a requested chain
\* without {previous} comes back as a parallel plan of the same items if and
\* only if it has more than one step; a chain with {previous} in a step is
\* kept as it is, with the note that no safe conversion is available.
C30_ChainToParallel ==
    (/\ planning.plan # NoPlan
     /\ planning.input.policy = "auto"
     /\ planning.input.recommendedMode = "parallel"
     /\ planning.input.requestedMode = "chain") =>
        LET chain == planning.input.items
            plan == planning.plan
        IN /\ plan.items = chain
           /\ ~containsPrevious(chain) =>
                 /\ plan.mode = "parallel" <=> Len(chain) > 1
                 /\ plan.mode \in {"parallel", "chain"}
           /\ containsPrevious(chain) =>
                 plan.mode = "chain" /\ plan.note = "noSafeConversion"
\* a chain of three independent steps that came back as a parallel plan
C30_Witness ==
    /\ planning.input.policy = "auto"
    /\ planning.input.recommendedMode = "parallel"
    /\ planning.input.requestedMode = "chain"
    /\ Len(planning.input.items) = 3
    /\ ~containsPrevious(planning.input.items)
    /\ planning.plan.mode = "parallel"
    /\ planning.plan.note = "chainToParallel"

(***************************************************************************)
(* Properties of the child environment.                                    *)
(***************************************************************************)
\* the budget read from an environment is the child budget it was written from
ReadsBack(budget, child) ==
    /\ budget.runId = child.runId
    /\ budget.depth = child.nextDepth
    /\ budget.maxDepth = child.maxDepth
    /\ budget.rootStartedAtMs = child.rootStartedAtMs
    /\ budget.deadlineAtMs = child.deadlineAtMs
    /\ budget.remainingTokens = child.remainingTokens
    /\ budget.fingerprints = child.fingerprints
    /\ budget.canSpawnChildren = child.canSpawnChildren
\* C29: the child budget of every reservation, written into the child's
\* environment and read by initializeExecutionBudget (at any time), comes
\* back with the same run id, depth = next depth, maximum depth, start,
\* deadline, remaining tokens, fingerprints and nesting flag; the process
\* launched for the reservation starts with that environment and budget.
C29_ReserveStep ==
    \A e \in gLog' \ gLog :
        /\ \A nowMs \in {gNow, TickMs} :
              ReadsBack(initializeExecutionBudget(ChildEnv(e.child), nowMs), e.child)
        /\ Len(gProcs') > Len(gProcs) =>
              LET q == gProcs'[Len(gProcs')]
              IN /\ q.via = e.id
                 /\ q.env = ChildEnv(e.child)
                 /\ ReadsBack(q.budget, e.child)
C29_EnvironmentRoundTrip == [][C29_ReserveStep]_vars
\* a grandchild that may not nest, launched with tokens and two fingerprints
C29_Witness ==
    \E q \in 2..Len(gProcs) :
        /\ gProcs[q].budget.depth = 2
        /\ ~gProcs[q].budget.canSpawnChildren
        /\ gProcs[q].budget.remainingTokens > 0
        /\ Len(gProcs[q].budget.fingerprints) >= 2
        /\ gProcs[q].calls = 0

(***************************************************************************)
(* Properties of the validation of a call.                                 *)
(***************************************************************************)
ConfigurationError ==
    \/ Cardinality(call.modes) # 1
    \/ call.smoke.requireSmoke /\ call.smoke.commands = 0
\* nothing of the call has taken effect: no budget, no coordinator run, no
\* worktree session or lane, no ledger store or entry, no reservation, no child
NoEffects ==
    /\ run.budget = NoBudget
    /\ run.coordinator.runs = 0
    /\ run.worktreeSession = "none"
    /\ run.lanes = <<>>
    /\ run.cleanupCalls = 0
    /\ ~run.storeCreated
    /\ run.ledger = {}
    /\ \A i \in 1..Len(run.tasks) :
          /\ run.tasks[i].state = "pending"
          /\ run.tasks[i].launches = 0
          /\ ~run.tasks[i].spawned
          /\ run.tasks[i].child = NoChild
\* C27: a call that provides no mode or more than one, or that requires the
\* smoke gate without a command, returns its error as a result before
\* anything of the call has taken effect.
C27_ConfigState ==
    (ConfigurationError /\ run.pc # "entry") =>
        /\ run.pc = "returned"
        /\ run.ret.kind = "result"
        /\ run.ret.text = (IF Cardinality(call.modes) # 1
                           THEN "invalidParameters" ELSE "config")
        /\ NoEffects
\* the step that takes such a call from its entry is its return
C27_ConfigStep ==
    (ConfigurationError /\ run.pc = "entry" /\ run' # run) =>
        run'.pc = "returned" /\ run'.budget = run.budget /\ run'.tasks = run.tasks
C27_ConfigurationErrorFirst == [](C27_ConfigState) /\ [][C27_ConfigStep]_vars
\* two modes at once, with worktree isolation asked for
C27_Witness ==
    /\ run.pc = "returned"
    /\ Cardinality(call.modes) = 2
    /\ call.isolation = "worktree"
    /\ run.ret.text = "invalidParameters"
C27_SmokeConfigRefused ==
    /\ run.pc = "returned"
    /\ Cardinality(call.modes) = 1
    /\ call.isolation = "worktree"
    /\ run.ret.text = "config"

\* the call names an agent that is not among the loaded agents
MissingAgent ==
    /\ Cardinality(call.modes) = 1
    /\ \E i \in 1..PlanSize : getAgentByName(call.plan.items[i].agent) = NoAgent
\* C28 as stated: a call that names a missing agent, wherever in its task list
\* or chain, has no child spawned, no budget reserved, no ledger entry written
\* and no worktree lane created, and returns the error as a result.
C28_MissingAgentNoEffects ==
    MissingAgent =>
        /\ run.ledger = {}
        /\ run.lanes = <<>>
        /\ \A i \in 1..Len(run.tasks) :
              ~run.tasks[i].spawned /\ ~HasReservation(run.tasks[i])
        /\ run.pc = "returned" =>
              run.ret.kind = "result" /\ run.ret.text \in EntryRefusalTexts \cup {"unknownAgent"}
\* what does hold: the missing agent itself is never reserved for or spawned
C28_MissingAgentNotRun ==
    \A i \in 1..PlanSize :
        getAgentByName(call.plan.items[i].agent) = NoAgent =>
            ~run.tasks[i].spawned /\ ~HasReservation(run.tasks[i])
\* a chain refused at its last step for the missing agent after the step
\* before it has run
C28_RefusedAfterChild ==
    /\ MissingAgent
    /\ run.pc = "returned"
    /\ run.ret.text = "unknownAgent"
    /\ run.tasks[1].spawned
\* a parallel batch refused at its second task with the lane, the dispatch
\* and the reservation of the first
C28_RefusedAfterLane ==
    /\ MissingAgent
    /\ call.plan.mode = "parallel"
    /\ run.ret.text = "unknownAgent"
    /\ Len(run.lanes) = 1
    /\ HasReservation(run.tasks[1])

(***************************************************************************)
(* Properties of the record of failed children.                            *)
(***************************************************************************)
\* a child process that was spawned and has ended in a failure
ChildFailed(t) ==
    /\ t.spawned
    /\ \/ t.state = "thrown"
       \/ t.state = "done" /\ IsError(t)
ErrorObservation(i) == [type |-> "observation", task |-> i, status |-> "error"]
\* C26 as stated: when the call has returned, every launched child that ended
\* with a non-zero exit code, the stop reason error, a cancellation or a
\* timeout has an error result and an observation with status error.
C26_FailuresRecorded ==
    run.pc = "returned" =>
        \A i \in 1..Len(run.tasks) :
            ChildFailed(run.tasks[i]) =>
                /\ run.tasks[i].state = "done"
                /\ ErrorObservation(i) \in run.ledger
\* the same for the children whose result reached the caller
C26_ResultsRecorded ==
    \A i \in 1..Len(run.tasks) :
        (run.pc = "returned" /\ run.tasks[i].spawned
            /\ run.tasks[i].state = "done" /\ IsError(run.tasks[i])) =>
                ErrorObservation(i) \in run.ledger
\* a cancelled call: it ended in the exception of its killed child, which
\* has neither result nor observation
C26_AbortUnrecorded ==
    /\ run.pc = "returned"
    /\ run.ret.kind = "throw"
    /\ \E i \in 1..Len(run.tasks) :
          /\ run.tasks[i].state = "thrown"
          /\ \A e \in run.ledger : e.type = "observation" => e.task # i

(***************************************************************************)
(* Properties of the store's reads.                                        *)
(***************************************************************************)
\* C24: a read returns exactly the last min(max(limit, 1), 100) entries of the
\* store's run, in the order of the file, and never an entry of another run
\* or a line that is not JSON; an append leaves the earlier lines as they are.
C24_ReadState ==
    store.read.done =>
        LET count == Min(Max(store.read.limit, 1), 100)
            \* the store's own entries are its observations of tasks 1, 2, ...
            total == store.nextTask - 1
            n == Min(total, count)
        IN /\ Len(store.read.entries) = n
           /\ \A k \in 1..n :
                 store.read.entries[k] =
                     ObservationEntry(store.runId, total - n + k, AgentC.name, "success")
C24_AppendStep ==
    store'.file # store.file =>
        /\ Len(store'.file) = Len(store.file) + 1
        /\ SubSeq(store'.file, 1, Len(store.file)) = store.file
C24_LedgerReads == [](C24_ReadState) /\ [][C24_AppendStep]_vars
\* a read beyond the cap over a file with more than a hundred own entries
\* and both kinds of foreign lines
C24_Witness ==
    /\ store.read.done
    /\ store.read.limit > 100
    /\ Len(store.read.entries) = 100
    /\ store.nextTask > 101
    /\ \E k \in 1..Len(store.file) : ~JSONparse(store.file[k]).ok
    /\ \E k \in 1..Len(store.file) : store.file[k].runId = OtherRunId

(***************************************************************************)
(* Properties of the finally clause.                                       *)
(***************************************************************************)
SessionCreated == run.worktreeSession # "none"

\* C21: a worktree session, once created, is cleaned up exactly once, in the
\* step in which the call completes, whatever the exit (result, error result
\* or exception); all its lanes are gone through, and a cleanup that leaves
\* warnings leaves the result a result: only a cancelled call ends in an
\* exception.
C21_CleanupState ==
    /\ run.cleanupCalls = (IF SessionCreated /\ run.pc = "returned" THEN 1 ELSE 0)
    /\ (run.worktreeSession = "cleaned") <=> (run.cleanupCalls = 1)
    /\ run.cleanupCalls = 1 => \A k \in 1..Len(run.lanes) : run.lanes[k].removed
    /\ run.cleanupWarnings > 0 =>
          /\ run.cleanupCalls = 1
          /\ run.ret.kind = "throw" => signalAborted
          /\ run.ret.kind \in {"result", "throw"}
C21_CleanupStep ==
    run'.cleanupCalls # run.cleanupCalls =>
        /\ run.pc # "returned"
        /\ run'.pc = "returned"
        /\ run'.cleanupCalls = run.cleanupCalls + 1
C21_GuaranteedCleanup == [](C21_CleanupState) /\ [][C21_CleanupStep]_vars

\* a call that ended well although git could remove none of its worktrees
C21_Witness ==
    /\ run.pc = "returned"
    /\ run.cleanupCalls = 1
    /\ run.cleanupWarnings > 0
    /\ run.ret.kind = "result"
    /\ ~run.ret.isError
    /\ run.coordinator.phase = "done"

\* C22: a coordinator run that was started is finished exactly once by the
\* time the call completes and not before the call leaves the try block; it
\* is then in phase done or error with parallelRunning 0, and no later step
\* changes the run.
C22_FinishState ==
    /\ run.coordinator.finishCalls <= 1
    /\ run.coordinator.finishCalls = 1 <=> run.coordinatorFinished
    /\ (run.coordinator.runs = 1 /\ run.pc = "returned") =>
          /\ run.coordinator.finishCalls = 1
          /\ run.coordinator.phase \in {"done", "error"}
          /\ run.coordinator.parallelRunning = 0
    /\ run.coordinator.runs = 0 => run.coordinator.finishCalls = 0
    /\ run.pc # "returned" => run.coordinator.phase \notin {"done", "error"}
C22_FinishStep ==
    run.coordinator.finishCalls = 1 => run'.coordinator = run.coordinator
C31_AutoIsolation ==
    deciding.decision # NoDecision =>
        LET input == deciding.input
            selected == deciding.decision.selectedIsolation
            Lower(k) == ToLower(input.tasks[k].task)
            ReadWord(k) == \E keyword \in READ_ONLY_TASK_KEYWORDS : Includes(Lower(k), keyword)
            WriteWord(k) == \E keyword \in WRITE_TASK_KEYWORDS : Includes(Lower(k), keyword)
        IN /\ (/\ input.requestedIsolation = "auto"
               /\ input.mode = "parallel"
               /\ Len(input.tasks) >= 2) =>
                 /\ selected \in {"shared", "worktree"}
                 /\ selected = "shared" <=>
                       /\ \A k \in 1..Len(input.tasks) : ReadWord(k)
                       /\ \A k \in 1..Len(input.tasks) : ~WriteWord(k)
           /\ input.requestedIsolation \in {"shared", "worktree"} =>
                 selected = input.requestedIsolation
\* three read-only tasks in parallel under auto, decided shared, one of them
\* written with a capital
C31_Witness ==
    /\ deciding.input.requestedIsolation = "auto"
    /\ deciding.input.mode = "parallel"
    /\ Len(deciding.input.tasks) = 2
    /\ deciding.input.tasks[1].task = <<"L", "i", "s", "t">>
    /\ deciding.input.tasks[2].task = <<"f", "i", "n", "d">>
    /\ deciding.decision.selectedIsolation = "shared"
    /\ deciding.decision.reason = "parallelReadOnly"


(***************************************************************************)
(* Properties of the coordinator monitor's status summary.                 *)
(***************************************************************************)
\* text.split(" | ")
RECURSIVE SplitTokens(_, _)
SplitTokens(text, token) ==
    IF text = <<>> THEN <<token>>
    ELSE IF Len(text) >= 3 /\ SubSeq(text, 1, 3) = <<" ", "|", " ">>
    THEN <<token>> \o SplitTokens(SubSeq(text, 4, Len(text)), <<>>)
    ELSE SplitTokens(Tail(text), Append(token, Head(text)))
\* a call of formatStatusSummary
FormatStep == summary = NotAsked /\ summary' # NotAsked
IsFinished(r) == r.phase \in {"done", "error"}
FinishedWithinWindow(r) ==
    IsFinished(r) /\ r.finishedAtMs # 0 /\ mClock.now - r.finishedAtMs <= COMPLETION_STATUS_WINDOW_MS
CompletionToken(r) ==
    <<"c">> \o IntToStr(r.id) \o (IF r.phase = "done" THEN <<":", "d", "o", "n", "e">>
                                  ELSE <<":", "e", "r", "r">>)
IdleSummary(counted) ==
    LET runs == monitor.runs
        Recent == {k \in 1..Len(runs) : FinishedWithinWindow(runs[k])}
    IN (/\ FormatStep
        /\ counted
        /\ \A k \in 1..Len(runs) : IsFinished(runs[k])) =>
            /\ Recent = {} => summary' = Undefined
            /\ Recent # {} =>
                  /\ summary'.defined
                  /\ LET tokens == SplitTokens(summary'.text, <<>>)
                     IN \A t \in 1..Len(tokens) :
                            \E k \in Recent : tokens[t] = CompletionToken(runs[k])
\* C32: a summary asked for when no run is active has no token if every
\* finished run finished more than 5000 ms ago, and otherwise consists of
\* c<id>:done and c<id>:err tokens of runs that finished within 5000 ms.
C32_IdleStatus == [][IdleSummary(TRUE)]_vars
\* the same while the monitor holds no more than the runs cleanup keeps
C32_IdleStatusOfKeptRuns == [][IdleSummary(Len(monitor.runs) <= MaxRuns)]_vars
\* an idle monitor that answered with the token of a failed run
C32_ErrToken ==
    /\ summary.defined
    /\ \A k \in 1..Len(monitor.runs) : IsFinished(monitor.runs[k])
    /\ \E k \in 1..Len(monitor.runs) :
           monitor.runs[k].phase = "error" /\ summary.text = CompletionToken(monitor.runs[k])
\* an idle monitor that answered with no token after the window had passed
C32_Cleared ==
    /\ summary = Undefined
    /\ monitor.runs # <<>>
    /\ \A k \in 1..Len(monitor.runs) :
           IsFinished(monitor.runs[k]) /\ ~FinishedWithinWindow(monitor.runs[k])

ActiveToken(r) ==
    LET k == Max(r.parallelRunning, Cardinality({a \in 1..Len(r.agents) : r.agents[a] = "running"}))
    IN <<"c">> \o IntToStr(r.id) \o <<":", "a">> \o IntToStr(r.agentsTotal)
       \o (IF k > 0 THEN <<":", "p">> \o IntToStr(k) ELSE <<>>)
\* the position in runs of the active run with the rank-th highest id
RankedActive(runs, rank) ==
    CHOOSE k \in 1..Len(runs) :
        /\ ~IsFinished(runs[k])
        /\ Cardinality({j \in 1..Len(runs) : ~IsFinished(runs[j]) /\ runs[j].id > runs[k].id}) = rank - 1
ActiveSummary(counted) ==
    LET runs == monitor.runs
        active == Cardinality({k \in 1..Len(runs) : ~IsFinished(runs[k])})
        listed == Min(3, active)
    IN (FormatStep /\ counted /\ active > 0) =>
            /\ summary'.defined
            /\ SplitTokens(summary'.text, <<>>) =
                  [t \in 1..listed |-> ActiveToken(runs[RankedActive(runs, listed + 1 - t)])]
\* C33: a summary asked for while a run is active lists the three active
\* runs started last (all of them when there are fewer), by ascending id,
\* each as c<id>:a<total> followed by :p<k> when k, the larger of
\* parallel_running and the number of running agents, is positive; it lists
\* no finished run.
C33_ActiveStatus == [][ActiveSummary(TRUE)]_vars
\* the same while the monitor holds no more than the runs cleanup keeps
C33_ActiveStatusOfKeptRuns == [][ActiveSummary(Len(monitor.runs) <= MaxRuns)]_vars
\* four active runs, of which the summary lists the last three
C33_LastThree ==
    /\ summary.defined
    /\ Cardinality({k \in 1..Len(monitor.runs) : ~IsFinished(monitor.runs[k])}) = 4
    /\ Len(SplitTokens(summary.text, <<>>)) = 3
\* a summary with a :p counter taken from parallel_running
C33_ParallelCounter ==
    /\ summary.defined
    /\ \E k \in 1..Len(monitor.runs) :
           /\ monitor.runs[k].parallelRunning = 3
           /\ monitor.runs[k].agents = <<"running", "pending">>
           /\ summary.text = <<"c">> \o IntToStr(monitor.runs[k].id) \o <<":", "a", "2", ":", "p", "3">>


(***************************************************************************)
(* Properties of the distribution of tokens over the children.             *)
(***************************************************************************)
\* the steps or tasks of the plan that hold a reservation
ReservedItems == {i \in 1..PlanSize : HasReservation(run.tasks[i])}
ChainReservations ==
    (/\ call.plan.mode = "chain"
     /\ Cardinality(call.modes) = 1
     /\ InitialTokens >= PlanSize) =>
        /\ \A i \in ReservedItems :
              /\ \A j \in 1..i : j \in ReservedItems
              /\ LET before == IF i = 1 THEN InitialTokens ELSE PlanSize - (i - 1)
                 IN run.tasks[i].child.remainingTokens = before - (PlanSize - (i - 1))
        /\ ReservedItems # {} =>
              run.budget.remainingTokens = PlanSize - Cardinality(ReservedItems)
        /\ run.ret.text \notin {"chainInsufficient", "chainExhausted", "budget"}
\* C34: in a chain of n steps started with at least n tokens, step i (counted
\* from 0) reserves the remaining tokens less n - i for the descendants of
\* its child, the parent holds n - i - 1 tokens from then on until the next
\* reservation, and no step is refused for lack of budget.
C34_ChainReservations == [](ChainReservations)
\* a chain of three steps started with sixteen tokens, all reserved
C34_Witness ==
    /\ call.plan.mode = "chain"
    /\ PlanSize = 3
    /\ InitialTokens = DEFAULT_MAX_TOTAL_AGENTS
    /\ ReservedItems = 1..3
    /\ run.tasks[1].child.remainingTokens = DEFAULT_MAX_TOTAL_AGENTS - 3
    /\ run.tasks[3].child.remainingTokens = 0
    /\ run.budget.remainingTokens = 0


\* the descendant tokens reserved for the tasks 1..i of the plan
RECURSIVE DescendantTokens(_)
DescendantTokens(i) ==
    IF i = 0 THEN 0
    ELSE DescendantTokens(i - 1)
         + (IF HasReservation(run.tasks[i]) THEN run.tasks[i].child.remainingTokens ELSE 0)
ParallelDistribution ==
    (/\ call.plan.mode = "parallel"
     /\ Cardinality(call.modes) = 1
     /\ PlanSize <= MAX_PARALLEL_TASKS
     /\ InitialTokens >= PlanSize) =>
        LET reserved == ReservedItems
        IN /\ reserved = 1..PlanSize => DescendantTokens(PlanSize) = InitialTokens - PlanSize
           /\ \A i, j \in reserved :
                 i < j => /\ run.tasks[i].child.remainingTokens
                                >= run.tasks[j].child.remainingTokens
                          /\ run.tasks[i].child.remainingTokens
                                - run.tasks[j].child.remainingTokens <= 1
           /\ run.ret.text \notin {"parallelInsufficient", "budget"}
\* C35: in a parallel batch of n tasks started with R >= n tokens the
\* descendant tokens reserved for the tasks add up to R - n, no task gets
\* more than an earlier one and none less than an earlier one by more than
\* 1, and no reservation is refused for lack of budget.
C35_ParallelDistribution == [](ParallelDistribution)
\* a batch whose pool does not divide evenly: the first task holds one
\* descendant token more than the last
C35_Witness ==
    /\ call.plan.mode = "parallel"
    /\ PlanSize = MaxTasks
    /\ InitialTokens = DEFAULT_MAX_TOTAL_AGENTS
    /\ ReservedItems = 1..PlanSize
    /\ run.tasks[1].child.remainingTokens = run.tasks[PlanSize].child.remainingTokens + 1
    /\ DescendantTokens(PlanSize) = DEFAULT_MAX_TOTAL_AGENTS - PlanSize

\* C39: once every planned reservation of a call has succeeded (the one of
\* a single call, the last step's of a chain, all n of a parallel batch) the
\* budget of the calling orchestrator holds 0 tokens.
C39_BudgetConsumed ==
    [](((/\ PlanSize > 0
         /\ Cardinality(call.modes) = 1
         /\ HasReservation(run.tasks[PlanSize])
         /\ call.plan.mode = "parallel" => ReservedItems = 1..PlanSize)
            => run.budget.remainingTokens = 0))
\* a chain of two steps started with exactly the tokens a nested process
\* was handed, both steps reserved
C39_Witness ==
    /\ call.plan.mode = "chain"
    /\ PlanSize = 2
    /\ InitialTokens = MaxReserved
    /\ ReservedItems = 1..2
    /\ run.budget.remainingTokens = 0

(***************************************************************************)
(* Properties of the statuses of the phase gates.                          *)
(***************************************************************************)
GateChanges ==
    {<<"pending", "passed">>, <<"pending", "failed">>, <<"failed", "failed">>,
     <<"failed", "passed">>, <<"passed", "passed">>}

\* the status of the smoke gate after the first k runs of a retry sequence
StatusAfterRuns(k, outcomes) ==
    IF k = 0 THEN run.phaseGateState.smokeStatus
    ELSE smokeRetryLoop([run EXCEPT !.phaseGateState.smokeMaxRetries = k - 1],
                        0, outcomes).phaseGateState.smokeStatus

\* every run of every retry sequence that can start here changes the status
\* by one of the listed changes
RetrySequenceForward ==
    (run.pc \in {"smoke", "postFixSmoke"} /\ run.phaseGateState.smokeCommands > 0) =>
        \A outcomes \in [1..(run.phaseGateState.smokeMaxRetries + 1) -> BOOLEAN] :
            \A k \in 1..(run.phaseGateState.smokeMaxRetries + 1) :
                <<StatusAfterRuns(k - 1, outcomes), StatusAfterRuns(k, outcomes)>>
                    \in GateChanges

GateStep ==
    LET before == run.phaseGateState.smokeStatus
        after == run'.phaseGateState.smokeStatus
    IN /\ after # before => <<before, after>> \in GateChanges
       /\ before # "pending" => after # "pending"
       /\ before = "passed" => after # "failed"
       /\ before = "skipped" => after = "skipped"

\* C36: the topology gate is always passed; the smoke gate never returns to
\* pending, never goes from passed to failed and never leaves skipped: its
\* changes are pending to passed, pending to failed, failed to failed, failed
\* to passed and passed to passed, within a call.
C36_GateStatusForward ==
    /\ [](run.phaseGateState.topologyStatus = "passed")
    /\ [](RetrySequenceForward)
    /\ [][GateStep]_vars

\* a required gate that failed all its runs, and one that passed on a retry
C36_Witness ==
    /\ run.pc = "returned"
    /\ run.phaseGateState.smokeStatus = "passed"
    /\ run.phaseGateState.smokeAttempts = 2
    /\ run.phaseGateState.topologyStatus = "passed"

(***************************************************************************)
(* Properties of the plan built from the request.                          *)
(***************************************************************************)
\* C37: the plan returned by buildExecutionPlan holds exactly the requested
\* items in the requested order, with their agent, task and cwd; under the
\* advisory policy its mode is the requested mode, under the auto policy its
\* mode is the requested or the recommended mode.
C37_PlanPreservesWork ==
    planning.plan # NoPlan =>
        /\ planning.plan.items = planning.input.items
        /\ planning.input.policy = "advisory" =>
               planning.plan.mode = planning.input.requestedMode
        /\ planning.input.policy = "auto" =>
               planning.plan.mode \in {planning.input.requestedMode,
                                       planning.input.recommendedMode}

\* a batch of three items, two of them with a cwd, turned into a chain
C37_Witness ==
    /\ planning.input.policy = "auto"
    /\ planning.input.requestedMode = "parallel"
    /\ planning.plan.mode = "chain"
    /\ Len(planning.plan.items) = 3
    /\ planning.plan.items = planning.input.items
    /\ planning.plan.items[1].cwd # NoCwd
    /\ planning.plan.items[2].cwd = NoCwd
    /\ planning.plan.items[3].cwd # NoCwd

(***************************************************************************)
(* Properties of the topology decision.                                    *)
(***************************************************************************)
\* C38: for a request whose requested mode is chain, buildTopologyDecision
\* gives coupling 8 and recommends chain, and the mode selected for the call
\* is chain under the advisory and under the auto policy.
C38_ChainNeverRerouted ==
    (topology.pc # "entry" /\ topology.decision.requestedMode = "chain") =>
        /\ topology.decision.couplingScore = 8
        /\ topology.decision.recommendedMode = "chain"
        /\ topology.decision.selectedMode = "chain"
        /\ topology.pc = "planned" =>
               /\ topology.plan.mode = "chain"
               /\ topology.plan.items = topology.params.chain

\* a chain of two short steps planned under the auto policy
C38_Witness ==
    /\ topology.pc = "planned"
    /\ topology.params.policy = "auto"
    /\ Len(topology.params.chain) = 2
    /\ topology.decision.requestedMode = "chain"
    /\ topology.decision.complexityScore < 7
    /\ topology.decision.riskScore < 7
    /\ topology.decision.selectedMode = "chain"
    /\ topology.plan.note = "alreadyChain"

(***************************************************************************)
(* Properties of the order of execution and cleanup.                       *)
(***************************************************************************)
\* the step in which the worktree cleanup or the finalization of the
\* coordinator run of the call starts
CleanupStarts ==
    \/ run'.cleanupCalls > run.cleanupCalls
    \/ ~run.coordinatorFinished /\ run'.coordinatorFinished

\* C40: worktree cleanup and coordinator finalization of a call never start
\* while a child process launched by the call is still running, also when
\* the call is cancelled with several parallel children in flight.
C40_CleanupFollowsExecution ==
    [][CleanupStarts => InFlight(run') = {}]_vars

\* C40, for the calls that hold one child at a time or are not cancelled
C40_CleanupFollowsSequentialExecution ==
    [][(CleanupStarts /\ (call.plan.mode # "parallel" \/ ~signalAborted))
          => InFlight(run') = {}]_vars

\* a cancelled batch that has returned, cleaned up and finalized while one of
\* its children is still running
C40_CleanedUpOverRunningChild ==
    /\ call.plan.mode = "parallel"
    /\ signalAborted
    /\ run.pc = "returned"
    /\ run.coordinatorFinished
    /\ run.worktreeSession = "cleaned"
    /\ InFlight(run) # {}

====
